---- MODULE Spec2Model ----
(***************************************************************************)
(* The dirty-propagation-and-update protocol of the pipeline engine:       *)
(* SimpleProcessNode (dirty flags, onUpdate, sendUpdateSignals, setDirty,  *)
(* the Modified handlers), InputImpl (accept, unset, PointerSet mirroring) *)
(* and the Value handle's hidden updater node.                             *)
(*                                                                         *)
(* Every thread runs a call stack of frames; one action is one handler     *)
(* step between two points where the thread can block on a mutex or calls  *)
(* into another node through a signal.                                     *)
(***************************************************************************)
EXTENDS Integers, Sequences, FiniteSets, TLC

VARIABLES
    cfg,             \* what the nodes registered in their constructors
    inputDirty,      \* SimpleProcessNode::_inputDirty, per node
    outputDirty,     \* SimpleProcessNode::_outputDirty, per node
    assignedOutput,  \* InputBase::_assignedOutput, per input
    inData,          \* InputImpl::_data, per input
    outData,         \* OutputImpl::_data, per output
    conn,            \* signal connections output <-> input made by accept
    updateMutex,     \* SimpleProcessNode::_updateMutex: owning thread or Null
    inputDirtyMutex, \* SimpleProcessNode::_inputDirtyMutex: owner or Null
    stack,           \* the call stack of every thread
    script,          \* wiring calls the application still makes at start-up
    ops,             \* application calls made after start-up
    wirings,         \* wiring calls made after start-up
    multiInputs,     \* Inputs::_inputs of the node's multi-input
    multiInputDirty, \* SimpleProcessNode::_multiInputDirty of it
    multiInputUpdates, \* SimpleProcessNode::_multiInputUpdates of it
    multiCallbacks,  \* connections output -> callbacks made for an entry of it
    numThreads,      \* SimpleProcessNode<LockingStrategy>::_numThreads
    dataLocks,       \* who holds Data::_mutex of which carrier, and how
    alive,           \* the nodes that have not been destructed
    handles,         \* the nodes the application holds a Process handle of
    h                \* history: what the properties need to remember

vars == <<cfg, inputDirty, outputDirty, assignedOutput, inData, outData, conn,
          updateMutex, inputDirtyMutex, stack, script, ops, wirings,
          multiInputs, multiInputDirty, multiInputUpdates, multiCallbacks,
          numThreads, dataLocks,
          alive, handles, h>>

pipeVars == <<inputDirty, outputDirty, assignedOutput, inData, outData, conn>>

multiVars == <<multiInputs, multiInputDirty, multiInputUpdates, multiCallbacks>>

lifeVars == <<alive, handles>>

ext == <<multiVars, numThreads, dataLocks, lifeVars>>

(***************************************************************************)
(* Bounds of the model.                                                    *)
(***************************************************************************)
MaxOps == 3
MaxWirings == 1

(***************************************************************************)
(* Program constants.                                                      *)
(***************************************************************************)
\* a null pointer (no assigned output, no carrier) and a free mutex
Null == 0
\* pipeline.numThreads, the number of additional worker threads
optionNumThreads == 0

NoOutput == <<Null, Null>>
\* the value of pipeline.numThreads where worker threads are in use
PoolThreads == 1
\* threads 1 and 2 belong to the application, the others are the workers
\* that sendUpdateSignals launches
AllThreads == {1, 2, 3, 4}
Workers == {3, 4}

\* the locking strategies a SimpleProcessNode can be instantiated with
Strategies == {"No", "Input", "Output", "Full"}

(***************************************************************************)
(* Carriers.  A carrier is a non-zero integer: positive carriers hold an   *)
(* Int, negative ones a String.  dynamic_pointer_cast gives the null       *)
(* pointer for a null pointer and for a carrier of another type.           *)
(***************************************************************************)
TypeOf(c) == IF c < 0 THEN "Str" ELSE "Int"

dynamic_pointer_cast(T, c) == IF c # Null /\ TypeOf(c) = T THEN c ELSE Null

Nodes == DOMAIN cfg.numInputs
InputsOf(n) == 1..cfg.numInputs[n]
OutputsOf(n) == 1..cfg.numOutputs[n]
AllInputs == {x \in Nodes \X (1..2) : x[2] <= cfg.numInputs[x[1]]}
AllOutputs == {y \in Nodes \X (1..2) : y[2] <= cfg.numOutputs[y[1]]}

\* the carriers some input or output holds
UsedCarriers == {inData[x[1]][x[2]] : x \in AllInputs} \cup
                {outData[x[1]][x[2]] : x \in AllOutputs} \cup
                UNION {{multiInputs[n][j].data : j \in DOMAIN multiInputs[n]} : n \in Nodes}

\* boost::make_shared<DataType>(): a carrier nobody holds yet
make_shared(T, used) ==
    LET k == CHOOSE j \in 1..(Cardinality(used) + 1) :
                 /\ (IF T = "Str" THEN 0 - j ELSE j) \notin used
                 /\ \A l \in 1..(j - 1) : (IF T = "Str" THEN 0 - l ELSE l) \in used
    IN IF T = "Str" THEN 0 - k ELSE k

(***************************************************************************)
(* Sequences of signal receivers, in a fixed order.                        *)
(***************************************************************************)
Key(x) == x[1] * 10 + x[2]

RECURSIVE SetToSeq(_)
SetToSeq(S) ==
    IF S = {} THEN <<>>
    ELSE LET x == CHOOSE y \in S : \A z \in S : Key(y) <= Key(z)
         IN <<x>> \o SetToSeq(S \ {x})

RECURSIVE Flatten(_)
Flatten(ss) == IF ss = <<>> THEN <<>> ELSE Head(ss) \o Flatten(Tail(ss))

(***************************************************************************)
(* Frames.                                                                 *)
(***************************************************************************)
Frame(k, n, a, pc) ==
    [k |-> k, n |-> n, a |-> a, pc |-> pc, i |-> 1, todo |-> <<>>,
     sig |-> "", src |-> NoOutput, numDirties |-> 0, workers |-> {}, g |-> <<>>,
     call |-> [op |-> "none"]]

Top(t) == stack[t][Len(stack[t])]
Busy(t) == stack[t] # <<>>
Ready(t) == Busy(t) /\ Top(t).todo = <<>> /\ ~h.crashed
SetTop(t, f) == [stack EXCEPT ![t] = [@ EXCEPT ![Len(@)] = f]]
Pop(t) == [stack EXCEPT ![t] = SubSeq(@, 1, Len(@) - 1)]
PushOn(t, f, g) == [stack EXCEPT ![t] = Append([@ EXCEPT ![Len(@)] = f], g)]

\* the nodes whose updateOutputs is running on some thread
Computing ==
    {n \in Nodes : \E t \in AllThreads : \E k \in DOMAIN stack[t] :
        stack[t][k].k = "onUpdate" /\ stack[t][k].n = n /\ stack[t][k].pc = "compute"}

(***************************************************************************)
(* Faulty variants of the operators below, against which the properties    *)
(* are tried.                                                              *)
(***************************************************************************)
\* never sees a dirty input
NoDirtyInput(n) == FALSE

\* writes the first output's flag only
setFirstOutputDirty(n, dirty) == [o \in 1..cfg.numOutputs[n] |-> IF o = 1 THEN dirty ELSE TRUE]

\* takes every required input for present
AlwaysPresent(n) == TRUE

\* a Modified signal that reaches nobody
EmitNothing(m, o) == <<>>

\* a mutex that never blocks
AlwaysFree(m, n) == TRUE

\* a thread_group that is not waited for
NoJoin(workers) == TRUE

\* a Modified that goes to all outputs whatever was declared
AllOutputsOf(n, i) == OutputsOf(n)

\* an input that does not forget its output
keepAssignedOutput(n, i) == assignedOutput

\* an accept that always returns true
AcceptsAll(T, data) == TRUE

\* a caller that never sends an Update itself
NeverItself(n, numDirties) == FALSE

\* the dirty mutex stays with the thread that sends Update
StillLocked(m, n, t) == [m EXCEPT ![n] = t]

\* a Modified signal flips the flag of the input
Flipped(n, i) == [inputDirty EXCEPT ![n][i] = ~@]

\* every input starts dirty
AllDirty(n, i) == TRUE

\* callbacks whose holder no slot keeps
Untracked == "weak"

\* a look-up that falls back to the first slot
FirstSlot(n, key) == [error |-> "none", slot |-> 1]

(***************************************************************************)
(* SimpleProcessNode: the predicates over the dirty flags.                 *)
(***************************************************************************)
haveDirtyInput(n) ==
    \/ \E i \in InputsOf(n) : inputDirty[n][i]
    \/ \E j \in DOMAIN multiInputDirty[n] : multiInputDirty[n][j]

numDirtyInputs(n) ==
    Cardinality({i \in InputsOf(n) : inputDirty[n][i]}) +
    Cardinality({j \in DOMAIN multiInputDirty[n] : multiInputDirty[n][j]})

haveDirtyOutput(n) == \E o \in OutputsOf(n) : outputDirty[n][o]

setOutputsDirty(n, dirty) == [o \in OutputsOf(n) |-> dirty]

hasAssignedOutput(n, i) == assignedOutput[n][i] # NoOutput

\* _assignedOutput = 0
unsetAssignedOutput(n, i) == [assignedOutput EXCEPT ![n][i] = NoOutput]

\* the input holds a carrier
isSet(n, i) == inData[n][i] # Null

requiredInputsPresent(n) ==
    \A i \in InputsOf(n) :
        ~(~(isSet(n, i) \/ hasAssignedOutput(n, i)) /\ cfg.inputRequired[n][i])

\* cfg.inputDirtys[n][i] is the set of outputs the input was declared to
\* affect; numOutput = -1 asks for all inputs
inputOutputDepends(n, i, numOutput) ==
    IF cfg.inputDirtys[n][i] = {} \/ numOutput = 0 - 1
    THEN TRUE
    ELSE numOutput \in cfg.inputDirtys[n][i]

\* the outputs on which sendModifiedSignals(numInput) emits Modified
ModifiedOutputs(n, i) ==
    IF cfg.inputDirtys[n][i] # {} THEN cfg.inputDirtys[n][i] ELSE OutputsOf(n)

\* cfg.multiInputDirtys[n] is the set of outputs the multi-input of n was
\* declared to affect
multiInputOutputDepends(n, numOutput) ==
    IF cfg.multiInputDirtys[n] = {} \/ numOutput = 0 - 1
    THEN TRUE
    ELSE numOutput \in cfg.multiInputDirtys[n]

\* the outputs on which sendModifiedSignals(numInput, numMultiInput) emits
MultiModifiedOutputs(n) ==
    IF cfg.multiInputDirtys[n] # {} THEN cfg.multiInputDirtys[n] ELSE OutputsOf(n)

\* an entry of a multi-input: the Input that Inputs::__accept stored
Entry(out, data) == [out |-> out, data |-> data]

\* the entries of multi-inputs that are assigned to output <<m, o>>
EntriesOn(m, o) ==
    {x \in Nodes \X (1..4) :
        x[2] \in DOMAIN multiInputs[x[1]] /\ multiInputs[x[1]][x[2]].out = <<m, o>>}

(***************************************************************************)
(* Signal delivery.  conn holds <<output, input>> for every pair of an     *)
(* output's and an input's senders and receivers that accept connected.    *)
(***************************************************************************)
\* WeakProcessNodeCallback, the callbacks of inputs: the slot keeps a weak
\* pointer to the node
InputTracking == "weak"

\* SharedProcessNodeCallback, the callbacks of outputs: the slot keeps a
\* shared pointer to the node
OutputTracking == "shared"

\* signals::CallbackInvoker: with weak tracking the weak pointer is locked
\* when a signal is to be sent, and the callback of a node that does not
\* live any more is removed instead of called
Invoked(tracking, n) == tracking # "weak" \/ n \in alive

\* the nodes whose output callbacks the slots of the inputs of the nodes in
\* S are connected to, and which these slots keep from destruction
SharedHolders(S) ==
    IF OutputTracking # "shared" THEN {}
    ELSE {c[1][1] : c \in {d \in conn : d[2][1] \in S}}

\* the nodes that live while the application holds the nodes in S: S, the
\* nodes their slots hold, and so on
RECURSIVE Kept(_)
Kept(S) == IF SharedHolders(S) \subseteq S THEN S ELSE Kept(S \cup SharedHolders(S))

\* the inputs that receive what output <<m, o>> sends forward
ForwardReceivers(m, o) ==
    SetToSeq({x \in AllInputs : <<<<m, o>>, x>> \in conn /\ Invoked(InputTracking, x[1])})

\* the outputs that receive what input <<n, i>> sends backward
BackwardReceivers(n, i) == SetToSeq({y \in AllOutputs : <<y, <<n, i>>>> \in conn})

ModFrame(x, sig) == [Frame("mod", x[1], x[2], "enter") EXCEPT !.sig = sig]

\* a signal for entry x[2] of the multi-input of node x[1]
MultiModFrame(x, sig) == [Frame("multimod", x[1], x[2], "enter") EXCEPT !.sig = sig]

\* the callbacks for entries of multi-inputs that are connected to the
\* slots of output <<m, o>>
MultiReceivers(m, o) == SetToSeq({x[2] : x \in {z \in multiCallbacks : z[1] = <<m, o>>}})

\* Output::_modified(): onInputModified of every connected input and
\* onMultiInputModified of every connected entry of a multi-input
EmitModified(m, o) ==
    LET r == ForwardReceivers(m, o)
        e == MultiReceivers(m, o)
    IN [k \in DOMAIN r |-> ModFrame(r[k], "Modified")] \o
       [k \in DOMAIN e |-> MultiModFrame(e[k], "Modified")]

\* the outputs in the order in which sendModifiedSignals goes through them
SortedOutputs(outs) ==
    [k \in 1..Cardinality(outs) |->
        CHOOSE o \in outs : Cardinality({p \in outs : p < o}) = k - 1]

\* sendModifiedSignals(numInput)
sendModifiedSignals(n, i) ==
    LET outs == ModifiedOutputs(n, i)
        seq == [k \in 1..Cardinality(outs) |->
                   CHOOSE o \in outs : Cardinality({p \in outs : p < o}) = k - 1]
    IN Flatten([k \in DOMAIN seq |-> EmitModified(n, seq[k])])

\* sendModifiedSignals(numInput, numMultiInput)
sendMultiModifiedSignals(n) ==
    LET seq == SortedOutputs(MultiModifiedOutputs(n))
    IN Flatten([k \in DOMAIN seq |-> EmitModified(n, seq[k])])

\* OutputBase::notifyPointerSet(): onOutputPointerSet of every connected
\* input; the entries of multi-inputs are connected through the callback of
\* the Input that Inputs::__accept connected
notifyPointerSet(m, o) ==
    LET r == ForwardReceivers(m, o)
        e == MultiReceivers(m, o)
    IN [k \in DOMAIN r |-> ModFrame(r[k], "PointerSet")] \o
       [k \in DOMAIN e |-> MultiModFrame(e[k], "PointerSet")]

\* Input::_update(Update()): onUpdate of every connected output's node
EmitUpdate(n, i) ==
    LET r == BackwardReceivers(n, i)
    IN [k \in DOMAIN r |-> Frame("onUpdate", r[k][1], r[k][2], "lock")]

\* (*_multiInputUpdates[i])[j](): onUpdate of the node of the output that
\* the slot of entry j is connected to
EmitMultiUpdate(n, j) ==
    IF multiInputUpdates[n][j] = NoOutput THEN <<>>
    ELSE <<Frame("onUpdate", multiInputUpdates[n][j][1], multiInputUpdates[n][j][2], "lock")>>

\* the nodes an input or an entry of the multi-input of n is assigned to,
\* and theirs
RECURSIVE UpstreamOf(_)
UpstreamOf(n) ==
    LET direct == ({assignedOutput[n][i][1] : i \in InputsOf(n)} \cup
                   {multiInputs[n][j].out[1] : j \in DOMAIN multiInputs[n]}) \ {Null}
    IN direct \cup UNION {UpstreamOf(m) : m \in direct}

\* the inputs that output <<m, o>> reaches through assigned outputs and the
\* declared dependencies of the nodes on the way
RECURSIVE DownstreamInputs(_, _)
DownstreamInputs(m, o) ==
    LET direct == {x \in AllInputs : assignedOutput[x[1]][x[2]] = <<m, o>>}
    IN direct \cup
       UNION {UNION {DownstreamInputs(x[1], p) : p \in ModifiedOutputs(x[1], x[2])} :
                 x \in direct} \cup
       UNION {UNION {DownstreamInputs(x[1], p) : p \in MultiModifiedOutputs(x[1])} :
                 x \in EntriesOn(m, o)}

(***************************************************************************)
(* The pipelines under study.  A pipeline has five nodes; a node with no   *)
(* output is the hidden UpdateValue node of a Value handle.  The script is *)
(* the wiring the application does before it starts to use the pipeline.   *)
(***************************************************************************)
AcceptOutputOp(n, i, m, o) == [op |-> "acceptOutput", n |-> n, i |-> i, src |-> <<m, o>>]
AcceptPointerOp(n, i, c) == [op |-> "acceptPointer", n |-> n, i |-> i, src |-> <<c, Null>>]

\* the key of a look-up: a number, which counts from 0, or a name
ByIndex(k) == [by |-> "index", index |-> k, name |-> ""]
ByName(s) == [by |-> "name", index |-> 0, name |-> s]

\* what the application passes as the source of a wiring call: an output or
\* an input of node n, looked up by key, or a pointer to a new carrier of type T
FromOutput(n, key) == [kind |-> "output", n |-> n, key |-> key, T |-> ""]
FromInput(n, key) == [kind |-> "input", n |-> n, key |-> key, T |-> ""]
FromPointer(T) == [kind |-> "pointer", n |-> 0, key |-> ByIndex(0), T |-> T]
FromNothing == [kind |-> "none", n |-> 0, key |-> ByIndex(0), T |-> ""]

\* a wiring call on node n: setInput, addInput, unsetInput or clearInputs
Call(op, n, key, src) == [op |-> op, n |-> n, key |-> key, src |-> src]

\* the names under which a node registers its slots
SlotNames == <<"a", "b">>

\* a node with outputs is a SimpleProcessNode<OutputLockingStrategy> and
\* registers no multi-input, its updateOutputs does not throw, and the
\* application keeps the option pipeline.numThreads at its default, unless
\* the pipeline says otherwise; the menu is the wiring calls by name or
\* number that the application can make after start-up
Pipeline(nin, req, nout, otyp, hints, sets, od, scr, rew, thr) ==
    [numInputs |-> nin, inputRequired |-> req, numOutputs |-> nout,
     outputType |-> otyp, inputDirtys |-> hints, sets |-> sets,
     outData |-> od, script |-> scr, rewire |-> rew, threads |-> thr,
     strategy |-> [n \in DOMAIN nin |-> IF nout[n] = 0 THEN "Full" ELSE "Output"],
     numMultiInputs |-> [n \in DOMAIN nin |-> 0],
     multiInputDirtys |-> [n \in DOMAIN nin |-> {}],
     throws |-> [n \in DOMAIN nin |-> FALSE],
     inputNames |-> [n \in DOMAIN nin |-> SubSeq(SlotNames, 1, nin[n])],
     outputNames |-> [n \in DOMAIN nin |-> SubSeq(SlotNames, 1, nout[n])],
     multiInputNames |-> [n \in DOMAIN nin |-> <<>>],
     numThreads |-> optionNumThreads,
     menu |-> {},
     drops |-> {}]

NoHints == << <<>>, <<{}>>, <<{}, {}>>, <<{}>>, <<{}>> >>
NeverSets == <<FALSE, FALSE, FALSE, FALSE, FALSE>>

\* source A -> filter T -> node N (required and optional input, two
\* outputs) -> Values V1 on N's first and V2 on N's second output
Chain(sets) ==
    Pipeline(<<0, 1, 2, 1, 1>>,
             << <<>>, <<TRUE>>, <<TRUE, FALSE>>, <<TRUE>>, <<TRUE>> >>,
             <<1, 1, 2, 0, 0>>,
             << <<"Int">>, <<"Int">>, <<"Int", "Int">>, <<>>, <<>> >>,
             NoHints, sets,
             << <<Null>>, <<Null>>, <<Null, Null>>, <<>>, <<>> >>,
             <<AcceptOutputOp(2, 1, 1, 1), AcceptOutputOp(3, 1, 2, 1),
               AcceptOutputOp(4, 1, 3, 1), AcceptOutputOp(5, 1, 3, 2)>>,
             {<<3, 2>>}, {1})

\* sources A and B -> node N whose first input was declared to affect the
\* first and whose second input the second output -> V1 and V2, both on
\* N's first output
Hinted ==
    Pipeline(<<0, 0, 2, 1, 1>>,
             << <<>>, <<>>, <<TRUE, TRUE>>, <<TRUE>>, <<TRUE>> >>,
             <<1, 1, 2, 0, 0>>,
             << <<"Int">>, <<"Int">>, <<"Int", "Int">>, <<>>, <<>> >>,
             << <<>>, <<>>, <<{1}, {2}>>, <<{}>>, <<{}>> >>, NeverSets,
             << <<Null>>, <<Null>>, <<Null, Null>>, <<>>, <<>> >>,
             <<AcceptOutputOp(3, 1, 1, 1), AcceptOutputOp(3, 2, 2, 1),
               AcceptOutputOp(4, 1, 3, 1), AcceptOutputOp(5, 1, 3, 1)>>,
             {}, {1})

\* the same N -> node C that reads both of N's outputs -> Value V
Joined ==
    Pipeline(<<0, 0, 2, 2, 1>>,
             << <<>>, <<>>, <<TRUE, TRUE>>, <<TRUE, TRUE>>, <<TRUE>> >>,
             <<1, 1, 2, 1, 0>>,
             << <<"Int">>, <<"Int">>, <<"Int", "Int">>, <<"Int">>, <<>> >>,
             << <<>>, <<>>, <<{1}, {2}>>, <<{}, {}>>, <<{}>> >>, NeverSets,
             << <<Null>>, <<Null>>, <<Null, Null>>, <<Null>>, <<>> >>,
             <<AcceptOutputOp(3, 1, 1, 1), AcceptOutputOp(3, 2, 2, 1),
               AcceptOutputOp(4, 1, 3, 1), AcceptOutputOp(4, 2, 3, 2),
               AcceptOutputOp(5, 1, 4, 1)>>,
             {}, {1})

\* an Int source A, a String source B that holds a carrier, N whose optional
\* input is bound to a pointer and whose required input is still to be wired,
\* and V1 on N's first output
Loose ==
    Pipeline(<<0, 0, 2, 1, 1>>,
             << <<>>, <<>>, <<TRUE, FALSE>>, <<TRUE>>, <<TRUE>> >>,
             <<1, 1, 2, 0, 0>>,
             << <<"Int">>, <<"Str">>, <<"Int", "Int">>, <<>>, <<>> >>,
             << <<>>, <<>>, <<{}, {}>>, <<{}>>, <<{}>> >>, NeverSets,
             << <<Null>>, <<0 - 1>>, <<Null, Null>>, <<>>, <<>> >>,
             <<AcceptOutputOp(4, 1, 3, 1), AcceptPointerOp(3, 2, 1)>>,
             {<<3, 1>>, <<3, 2>>}, {1})

\* the pipeline Loose with a source A that gives its output a new carrier at
\* every compute, and an N whose optional input is first assigned to A's
\* output and then bound to a pointer
Rebound ==
    [Loose EXCEPT !.sets = <<TRUE, FALSE, FALSE, FALSE, FALSE>>,
                  !.script = <<AcceptOutputOp(4, 1, 3, 1), AcceptOutputOp(3, 1, 1, 1),
                               AcceptOutputOp(3, 2, 1, 1), AcceptPointerOp(3, 2, 1)>>]

\* source A -> node P -> V1 and V2, used by two threads
Shared ==
    Pipeline(<<0, 0, 1, 1, 1>>,
             << <<>>, <<>>, <<TRUE>>, <<TRUE>>, <<TRUE>> >>,
             <<1, 0, 1, 0, 0>>,
             << <<"Int">>, <<>>, <<"Int">>, <<>>, <<>> >>,
             << <<>>, <<>>, <<{}>>, <<{}>>, <<{}>> >>,
             <<TRUE, FALSE, FALSE, FALSE, FALSE>>,
             << <<Null>>, <<>>, <<Null>>, <<>>, <<>> >>,
             <<AcceptOutputOp(3, 1, 1, 1), AcceptOutputOp(4, 1, 3, 1),
               AcceptOutputOp(5, 1, 3, 1)>>,
             {}, {1, 2})

\* source A that gives its output a new carrier at every compute, a String
\* source B that holds a carrier, node E with the multi-input "xs" and one
\* output, the Value V on E's output and the Value W on A's output
Multi ==
    [Pipeline(<<0, 0, 0, 1, 1>>,
              << <<>>, <<>>, <<>>, <<TRUE>>, <<TRUE>> >>,
              <<1, 1, 1, 0, 0>>,
              << <<"Int">>, <<"Str">>, <<"Int">>, <<>>, <<>> >>,
              << <<>>, <<>>, <<>>, <<{}>>, <<{}>> >>,
              <<TRUE, FALSE, FALSE, FALSE, FALSE>>,
              << <<Null>>, <<0 - 1>>, <<Null>>, <<>>, <<>> >>,
              <<Call("addInput", 3, ByName("xs"), FromOutput(1, ByName("a"))),
                Call("setInput", 4, ByIndex(0), FromOutput(3, ByIndex(0))),
                Call("setInput", 5, ByIndex(0), FromOutput(1, ByIndex(0)))>>,
              {}, {1})
     EXCEPT !.numMultiInputs = <<0, 0, 1, 0, 0>>,
            !.multiInputNames = << <<>>, <<>>, <<"xs">>, <<>>, <<>> >>,
            !.menu = {Call("clearInputs", 3, ByIndex(0), FromNothing),
                      Call("clearInputs", 3, ByName("a"), FromNothing),
                      Call("addInput", 3, ByIndex(0), FromPointer("Int")),
                      Call("addInput", 3, ByIndex(0), FromOutput(2, ByIndex(0))),
                      Call("addInput", 3, ByIndex(1), FromOutput(1, ByIndex(0))),
                      Call("addInput", 3, ByName("xs"), FromOutput(1, ByName("b"))),
                      Call("addInput", 3, ByName("xs"), FromInput(5, ByIndex(0))),
                      Call("addInput", 3, ByName("xs"), FromInput(4, ByIndex(1)))}]

\* the pipeline Multi with a second output on E, setDependency(xs, first
\* output), and the Value W on E's second output; what W reads is not
\* added to E's multi-input
Fanned ==
    [Multi EXCEPT !.numOutputs[3] = 2,
                  !.outputType[3] = <<"Int", "Int">>,
                  !.outData[3] = <<Null, Null>>,
                  !.outputNames[3] = <<"a", "b">>,
                  !.multiInputDirtys[3] = {1},
                  !.script[3] = Call("setInput", 5, ByIndex(0), FromOutput(3, ByIndex(1))),
                  !.menu = @ \ {Call("addInput", 3, ByName("xs"), FromInput(5, ByIndex(0)))}]

\* source A, node D whose required input "a" is assigned to A's output and
\* whose optional input "b" is bound to a pointer, the Value V on D's
\* output, and the Values W and U that are not bound yet
Optional ==
    [Pipeline(<<0, 2, 1, 1, 1>>,
              << <<>>, <<TRUE, FALSE>>, <<TRUE>>, <<TRUE>>, <<TRUE>> >>,
              <<1, 1, 0, 0, 0>>,
              << <<"Int">>, <<"Int">>, <<>>, <<>>, <<>> >>,
              << <<>>, <<{}, {}>>, <<{}>>, <<{}>>, <<{}>> >>, NeverSets,
              << <<Null>>, <<Null>>, <<>>, <<>>, <<>> >>,
              <<Call("setInput", 2, ByName("a"), FromOutput(1, ByName("a"))),
                Call("setInput", 2, ByIndex(1), FromPointer("Int")),
                Call("setInput", 3, ByIndex(0), FromOutput(2, ByIndex(0)))>>,
              {}, {1})
     EXCEPT !.menu = {Call("unsetInput", 2, ByName("b"), FromNothing),
                      Call("unsetInput", 2, ByIndex(2), FromNothing),
                      Call("setInput", 2, ByName("xs"), FromPointer("Int")),
                      Call("setInput", 2, ByIndex(1), FromOutput(1, ByIndex(1))),
                      Call("setInput", 2, ByIndex(1), FromOutput(1, ByName("out"))),
                      Call("setInput", 4, ByIndex(0), FromInput(3, ByIndex(0))),
                      Call("setInput", 4, ByIndex(0), FromInput(2, ByName("b"))),
                      Call("setInput", 3, ByIndex(0), FromInput(5, ByIndex(0))),
                      Call("setInput", 3, ByIndex(0), FromInput(5, ByName("c")))}]

\* the pipelines Hinted and Chain with a node N whose updateOutputs can throw
Throwing ==
    {[Hinted EXCEPT !.throws = <<FALSE, FALSE, TRUE, FALSE, FALSE>>],
     [Chain(<<TRUE, TRUE, FALSE, FALSE, FALSE>>) EXCEPT
         !.throws = <<FALSE, FALSE, TRUE, FALSE, FALSE>>]}

\* source A (output locking, created with a carrier, gives its output a new
\* carrier at every compute), source B (no locking, its output has no
\* carrier), node N of strategy s whose required input is assigned to A's
\* and whose optional input to B's output, Value V1 on N's first output and
\* Value V2 on A's output; two threads use it
Locked(s) ==
    [Pipeline(<<0, 0, 2, 1, 1>>,
              << <<>>, <<>>, <<TRUE, FALSE>>, <<TRUE>>, <<TRUE>> >>,
              <<1, 1, 2, 0, 0>>,
              << <<"Int">>, <<"Int">>, <<"Int", "Int">>, <<>>, <<>> >>,
              << <<>>, <<>>, <<{}, {}>>, <<{}>>, <<{}>> >>,
              <<TRUE, FALSE, FALSE, FALSE, FALSE>>,
              << <<1>>, <<Null>>, <<Null, Null>>, <<>>, <<>> >>,
              <<AcceptOutputOp(3, 1, 1, 1), AcceptOutputOp(3, 2, 2, 1),
                AcceptOutputOp(4, 1, 3, 1), AcceptOutputOp(5, 1, 1, 1)>>,
              {}, {1, 2})
     EXCEPT !.strategy = <<"Output", "No", s, "Full", "Full">>]

\* the same with a source B that was created with a carrier
LockedSet(s) == [Locked(s) EXCEPT !.outData[2] = <<2>>]

\* the same with a source A that keeps its carrier and a node N of strategy
\* s whose first output was created with the carrier of A's output:
\* OutputImpl(const S& data) : _data(data)
Passing(s) ==
    [LockedSet(s) EXCEPT !.sets = [n \in 1..5 |-> FALSE], !.outData[3] = <<1, Null>>]

\* sources A and B, node M of strategy s that reads both, node N with full
\* locking that reads M and B, Value V on N's output; every output was
\* created with a carrier; pipeline.numThreads is 1
Pooled(s) ==
    [Pipeline(<<0, 0, 2, 2, 1>>,
              << <<>>, <<>>, <<TRUE, TRUE>>, <<TRUE, TRUE>>, <<TRUE>> >>,
              <<1, 1, 1, 1, 0>>,
              << <<"Int">>, <<"Int">>, <<"Int">>, <<"Int">>, <<>> >>,
              << <<>>, <<>>, <<{}, {}>>, <<{}, {}>>, <<{}>> >>,
              <<TRUE, FALSE, FALSE, FALSE, FALSE>>,
              << <<1>>, <<2>>, <<3>>, <<4>>, <<>> >>,
              <<AcceptOutputOp(3, 1, 1, 1), AcceptOutputOp(3, 2, 2, 1),
                AcceptOutputOp(4, 1, 3, 1), AcceptOutputOp(4, 2, 2, 1),
                AcceptOutputOp(5, 1, 4, 1)>>,
              {}, {1})
     EXCEPT !.strategy = <<"Output", "Output", s, "Full", "Full">>,
            !.numThreads = PoolThreads]

\* sources A and B -> node N, Value V1 on N's output and Value V2 on A's
\* output; the application may drop the Process handle of every node and
\* both Values
Life ==
    [Pipeline(<<0, 0, 2, 1, 1>>,
              << <<>>, <<>>, <<TRUE, TRUE>>, <<TRUE>>, <<TRUE>> >>,
              <<1, 1, 1, 0, 0>>,
              << <<"Int">>, <<"Int">>, <<"Int">>, <<>>, <<>> >>,
              << <<>>, <<>>, <<{}, {}>>, <<{}>>, <<{}>> >>,
              <<TRUE, TRUE, TRUE, FALSE, FALSE>>,
              << <<Null>>, <<Null>>, <<Null>>, <<>>, <<>> >>,
              <<AcceptOutputOp(3, 1, 1, 1), AcceptOutputOp(3, 2, 2, 1),
                AcceptOutputOp(4, 1, 3, 1), AcceptOutputOp(5, 1, 1, 1)>>,
              {}, {1})
     EXCEPT !.drops = {1, 2, 3, 4, 5}]

Pipelines ==
    {Chain(NeverSets), Chain(<<TRUE, TRUE, FALSE, FALSE, FALSE>>), Hinted, Joined, Loose}

ValueNodes == {n \in Nodes : cfg.numOutputs[n] = 0 /\ cfg.numInputs[n] = 1}

\* every input takes Int carriers
InputType(n, i) == "Int"

NoCall == [op |-> "none"]

InitHistory ==
    [crashed |-> FALSE,
     v |-> Null,                            \* the Value of the last dereference
     done |-> FALSE,                        \* ... which has returned
     cnt |-> [n \in Nodes |-> 0],            \* computes during it, per node
     startDirty |-> {},                     \* nodes that were dirty when it began
     began |-> {},                          \* nodes whose compute began during it
     late |-> FALSE,                        \* a producer computed after its consumer
     updated |-> {},                        \* nodes whose onUpdate ran during it
     sent |-> {},                           \* inputs it sent Update through
     sentMulti |-> {},                      \* ... and entries of multi-inputs
     up |-> {},                             \* the nodes upstream of it when it began
     wired |-> FALSE,                       \* ... with all required inputs bound
     due |-> {},                            \* nodes set dirty that it has to compute
     dueAny |-> {},                         \* ... whether their inputs are bound or not
     quiet |-> [n \in Nodes |-> FALSE],      \* nothing reached the node since its last pull
     owed |-> [n \in Nodes |-> FALSE],       \* the node was invalidated during compute
     pending |-> {},                        \* outputs set dirty, not yet pulled or rewired
     ran |-> {},                            \* nodes that have computed
     failed |-> [n \in Nodes |-> FALSE],     \* the last compute of the node raised an
                                            \* error and nothing reached the node since
     thrown |-> 0 - 1,                      \* the call that ended with the error
     unsetPending |-> {},                   \* nodes an optional input of which was unset
     unsetDue |-> {},                       \* ... that the dereference is to compute
     clearPending |-> {},                   \* nodes whose multi-input was cleared
     clearDue |-> {},                       \* ... that the dereference is to compute
     last |-> NoCall]                       \* the wiring call that returned last

\* registerInput(input, name, inputType): _inputDirty.push_back(true), and
\* _inputDirty[numInput] = false for an Optional input
registerInput(n, i) == cfg.inputRequired[n][i]

\* registerOutput(output, name): _outputDirty.push_back(true); the
\* setOutputsDirty() of a later registerInput leaves it true
registerOutput(n, o) == TRUE

InitFor(P) ==
    /\ cfg \in P
    /\ inputDirty = [n \in Nodes |-> [i \in InputsOf(n) |-> registerInput(n, i)]]
    /\ outputDirty = [n \in Nodes |-> [o \in OutputsOf(n) |-> registerOutput(n, o)]]
    /\ assignedOutput = [n \in Nodes |-> [i \in InputsOf(n) |-> NoOutput]]
    /\ inData = [n \in Nodes |-> [i \in InputsOf(n) |-> Null]]
    /\ outData = [n \in Nodes |-> cfg.outData[n]]
    /\ conn = {}
    /\ updateMutex = [n \in Nodes |-> Null]
    /\ inputDirtyMutex = [n \in Nodes |-> Null]
    /\ stack = [t \in AllThreads |-> <<>>]
    /\ script = cfg.script
    /\ ops = 0
    /\ wirings = 0
    /\ multiInputs = [n \in Nodes |-> <<>>]
    /\ multiInputDirty = [n \in Nodes |-> <<>>]
    /\ multiInputUpdates = [n \in Nodes |-> <<>>]
    /\ multiCallbacks = {}
    /\ numThreads = [s \in Strategies |->
                        IF \E n \in Nodes : cfg.strategy[n] = s THEN cfg.numThreads ELSE 0]
    /\ dataLocks = {}
    /\ alive = Nodes
    /\ handles = Nodes
    /\ h = InitHistory

Init == InitFor(Pipelines)

InitConc == InitFor({Shared})

(***************************************************************************)
(* History bookkeeping.                                                    *)
(***************************************************************************)
\* the history of dereferences and pulls is kept where one thread uses the
\* pipeline
OneThread == cfg.threads = {1}

\* where several threads use the pipeline, quiet[n] says between the lock
\* and the return of an onUpdate of n that nothing has reached n since the
\* lock, and after the return that moreover another thread was waiting at
\* the update mutex of n when the onUpdate of thread t returned
Waiting(t, n) ==
    \E u \in AllThreads \ {t} :
        Busy(u) /\ Top(u).k = "onUpdate" /\ Top(u).n = n /\ Top(u).pc = "lock"

\* something (Modified, InputSet, setDirty, a wiring call) reaches node n
Touch(hist, n) ==
    [hist EXCEPT !.quiet[n] = FALSE, !.owed[n] = (@ \/ n \in Computing),
                 !.failed[n] = FALSE]

\* what accept and unset can change of input <<n, i>> and its node
Snapshot(n, i) ==
    [assignedOutput |-> assignedOutput[n][i], data |-> inData[n][i],
     conn |-> {y \in AllOutputs : <<y, <<n, i>>>> \in conn},
     inputDirty |-> inputDirty, outputDirty |-> outputDirty]

Returned(f, raised) ==
    [op |-> f.k, n |-> f.n, i |-> f.a, src |-> f.src, raised |-> raised, pre |-> f.g,
     call |-> f.call, error |-> IF raised THEN "AssignmentError" ELSE "none"]

(***************************************************************************)
(* Calls of the application.                                               *)
(***************************************************************************)
\* a thread of the application is free to make its next call
CanCall(t) ==
    /\ t \in cfg.threads
    /\ ~Busy(t)
    /\ ~h.crashed
    /\ script = <<>>
    /\ ops < MaxOps

\* the next call of the start-up script is op
ScriptCall(t, op) ==
    /\ t = 1
    /\ ~Busy(t)
    /\ script # <<>>
    /\ Head(script) = op

\* a wiring call: the next one of the script, or a later one on an input the
\* application rewires
WiringCall(t, op) ==
    \/ /\ ScriptCall(t, op)
       /\ script' = Tail(script)
       /\ UNCHANGED <<ops, wirings>>
    \/ /\ CanCall(t)
       /\ wirings < MaxWirings
       /\ <<op.n, op.i>> \in cfg.rewire
       /\ ops' = ops + 1
       /\ wirings' = wirings + 1
       /\ UNCHANGED script

MutexFree(m, n) == m[n] = Null

\* inputDirtyLock.unlock(): the dirty mutex of node n is free again before
\* thread t sends Update or sets the outputs dirty
unlock(m, n, t) == [m EXCEPT ![n] = Null]

\* *value, value->, the conversion to shared_ptr: ValueImpl::get()
CallDeref(t, v) ==
    /\ CanCall(t)
    /\ v \in ValueNodes
    /\ v \in handles
    /\ stack' = [stack EXCEPT ![t] = <<Frame("updateInputs", v, 0 - 1, "lock")>>]
    /\ ops' = ops + 1
    /\ h' = IF ~OneThread THEN h ELSE
             [h EXCEPT !.v = v, !.done = FALSE, !.cnt = [n \in Nodes |-> 0],
                      !.sent = {}, !.sentMulti = {},
                      !.startDirty = {n \in UpstreamOf(v) :
                                         haveDirtyInput(n) \/ haveDirtyOutput(n)},
                      !.began = {}, !.late = FALSE, !.updated = {}, !.thrown = 0 - 1,
                      !.up = UpstreamOf(v),
                      !.wired = \A n \in UpstreamOf(v) \cup {v} : requiredInputsPresent(n),
                      !.due = {y[1] : y \in {z \in h.pending :
                                  /\ <<v, 1>> \in DownstreamInputs(z[1], z[2])
                                  /\ requiredInputsPresent(z[1])}},
                      !.dueAny = {y[1] : y \in {z \in h.pending :
                                     <<v, 1>> \in DownstreamInputs(z[1], z[2])}},
                      !.pending = {z \in @ : <<v, 1>> \notin DownstreamInputs(z[1], z[2])},
                      !.unsetDue = h.unsetPending \cap UpstreamOf(v),
                      !.unsetPending = @ \ UpstreamOf(v),
                      !.clearDue = h.clearPending \cap UpstreamOf(v),
                      !.clearPending = @ \ UpstreamOf(v),
                      !.last = NoCall]
    /\ UNCHANGED <<cfg, ext, pipeVars, updateMutex, inputDirtyMutex, script, wirings>>

\* sendUpdateSignals(numOutput) begins: numDirties = numDirtyInputs()
SendFrame(n, numOutput) ==
    [Frame("send", n, numOutput, "loop") EXCEPT !.numDirties = numDirtyInputs(n)]

\* SimpleProcessNode::updateInputs(): take the update mutex, sendUpdateSignals()
updateInputs(t) ==
    /\ Ready(t)
    /\ Top(t).k = "updateInputs"
    /\ Top(t).pc = "lock"
    /\ MutexFree(updateMutex, Top(t).n)
    /\ updateMutex' = [updateMutex EXCEPT ![Top(t).n] = t]
    /\ stack' = PushOn(t, [Top(t) EXCEPT !.pc = "unlock"], SendFrame(Top(t).n, 0 - 1))
    /\ UNCHANGED <<cfg, ext, pipeVars, inputDirtyMutex, script, ops, wirings, h>>

\* updateInputs() returns, and with it the dereference
UpdateInputsReturn(t) ==
    /\ Ready(t)
    /\ Top(t).k = "updateInputs"
    /\ Top(t).pc = "unlock"
    /\ updateMutex' = [updateMutex EXCEPT ![Top(t).n] = Null]
    /\ stack' = Pop(t)
    /\ h' = IF OneThread THEN [h EXCEPT !.done = TRUE] ELSE h
    /\ UNCHANGED <<cfg, ext, pipeVars, inputDirtyMutex, script, ops, wirings>>

\* the caller sends Update itself unless several inputs are dirty and
\* _numThreads, the counter of its instantiation of SimpleProcessNode, says
\* that a worker thread is free
doItYourself(n, numDirties) == numDirties <= 1 \/ numThreads[cfg.strategy[n]] = 0

\* sendUpdateSignals(numOutput), one input: skip it if the output does not
\* depend on it; otherwise, under the dirty mutex, clear its flag if set and
\* send Update through it
sendUpdateSignals(t) ==
    /\ Ready(t)
    /\ Top(t).k = "send"
    /\ Top(t).i <= cfg.numInputs[Top(t).n]
    /\ LET n == Top(t).n
           i == Top(t).i
           next == [Top(t) EXCEPT !.i = i + 1]
       IN IF ~inputOutputDepends(n, i, Top(t).a)
          THEN /\ stack' = SetTop(t, next)
               /\ UNCHANGED <<inputDirty, inputDirtyMutex>>
          ELSE /\ MutexFree(inputDirtyMutex, n)
               /\ IF inputDirty[n][i]
                  THEN /\ doItYourself(n, Top(t).numDirties)
                       /\ inputDirty' = [inputDirty EXCEPT ![n][i] = FALSE]
                       /\ inputDirtyMutex' = unlock(inputDirtyMutex, n, t)
                       /\ stack' = SetTop(t, [next EXCEPT !.todo = EmitUpdate(n, i),
                                                          !.numDirties = @ - 1])
                  ELSE /\ stack' = SetTop(t, next)
                       /\ UNCHANGED <<inputDirty, inputDirtyMutex>>
    /\ h' = IF OneThread /\ stack'[t][Len(stack'[t])].todo # <<>>
            THEN [h EXCEPT !.sent = @ \cup {<<Top(t).n, Top(t).i>>}]
            ELSE h
    /\ UNCHANGED <<cfg, ext, outputDirty, assignedOutput, inData, outData, conn,
                   updateMutex, script, ops, wirings>>

\* the number of steps of the two loops of sendUpdateSignals: one for every
\* input and one for every flag of the multi-input
SendSteps(n) == cfg.numInputs[n] + cfg.numMultiInputs[n] * Len(multiInputDirty[n])

\* sendUpdateSignals(numOutput), one flag j of the multi-input: nothing if
\* the output does not depend on the multi-input; otherwise, under the dirty
\* mutex, clear the flag if set and send Update through slot j.  After
\* clear() the flags outnumber the slots: (*_multiInputUpdates[i])[j] is then
\* read out of range, which ends the program or gives a slot that reaches
\* nobody
sendMultiUpdateSignals(t) ==
    /\ Ready(t)
    /\ Top(t).k = "send"
    /\ Top(t).i > cfg.numInputs[Top(t).n]
    /\ Top(t).i <= SendSteps(Top(t).n)
    /\ LET n == Top(t).n
           j == Top(t).i - cfg.numInputs[n]
           next == [Top(t) EXCEPT !.i = @ + 1]
       IN IF ~multiInputOutputDepends(n, Top(t).a)
          THEN /\ stack' = SetTop(t, [Top(t) EXCEPT !.i = SendSteps(n) + 1])
               /\ UNCHANGED <<multiInputDirty, inputDirtyMutex, h>>
          ELSE /\ MutexFree(inputDirtyMutex, n)
               /\ IF multiInputDirty[n][j]
                  THEN /\ doItYourself(n, Top(t).numDirties)
                       /\ multiInputDirty' = [multiInputDirty EXCEPT ![n][j] = FALSE]
                       /\ inputDirtyMutex' = unlock(inputDirtyMutex, n, t)
                       /\ IF j \in DOMAIN multiInputUpdates[n]
                          THEN /\ stack' = SetTop(t, [next EXCEPT
                                                         !.todo = EmitMultiUpdate(n, j),
                                                         !.numDirties = @ - 1])
                               /\ h' = IF OneThread /\ EmitMultiUpdate(n, j) # <<>>
                                       THEN [h EXCEPT !.sentMulti = @ \cup {<<n, j>>}]
                                       ELSE h
                          ELSE \/ /\ stack' = SetTop(t, [next EXCEPT !.numDirties = @ - 1])
                                  /\ UNCHANGED h
                               \/ /\ h' = [h EXCEPT !.crashed = TRUE]
                                  /\ UNCHANGED stack
                  ELSE /\ stack' = SetTop(t, next)
                       /\ UNCHANGED <<multiInputDirty, inputDirtyMutex, h>>
    /\ UNCHANGED <<cfg, multiInputs, multiInputUpdates, multiCallbacks, numThreads,
                   dataLocks, lifeVars, pipeVars,
                   updateMutex, script, ops, wirings>>

\* the worker threads that belong to no thread_group
FreeWorkers ==
    {w \in Workers : /\ ~Busy(w)
                     /\ \A t \in AllThreads : \A k \in DOMAIN stack[t] :
                            w \notin stack[t][k].workers}

\* sendUpdateSignals(numOutput), a dirty input while other inputs are dirty
\* and _numThreads is not 0: count _numThreads down under the thread count
\* mutex, workers.create_thread(_inputUpdate[i]), go on with the next input
launchWorker(t) ==
    /\ Ready(t)
    /\ Top(t).k = "send"
    /\ Top(t).i <= cfg.numInputs[Top(t).n]
    /\ LET n == Top(t).n
           i == Top(t).i
       IN /\ inputOutputDepends(n, i, Top(t).a)
          /\ MutexFree(inputDirtyMutex, n)
          /\ inputDirty[n][i]
          /\ ~doItYourself(n, Top(t).numDirties)
          /\ \E w \in FreeWorkers :
                stack' = [stack EXCEPT
                            ![t] = [@ EXCEPT ![Len(@)] =
                                      [Top(t) EXCEPT !.i = i + 1, !.numDirties = @ - 1,
                                                     !.workers = @ \cup {w}]],
                            ![w] = <<[Frame("worker", n, i, "run") EXCEPT
                                        !.todo = EmitUpdate(n, i)]>>]
          /\ inputDirty' = [inputDirty EXCEPT ![n][i] = FALSE]
          /\ inputDirtyMutex' = unlock(inputDirtyMutex, n, t)
          /\ numThreads' = [numThreads EXCEPT ![cfg.strategy[n]] = @ - 1]
    /\ UNCHANGED <<cfg, multiVars, dataLocks, lifeVars, outputDirty, assignedOutput,
                   inData, outData, conn, updateMutex, script, ops,
                   wirings, h>>

\* _inputUpdate[i]() has returned in the worker thread: the thread ends
WorkerReturn(t) ==
    /\ Ready(t)
    /\ Top(t).k = "worker"
    /\ stack' = Pop(t)
    /\ UNCHANGED <<cfg, ext, pipeVars, updateMutex, inputDirtyMutex, script, ops, wirings, h>>

\* workers.join_all() returns when every thread of the group has ended
join_all(workers) == \A w \in workers : ~Busy(w)

\* sendUpdateSignals() is through with the inputs and the multi-input:
\* workers.join_all(), then _numThreads += workers.size() under the thread
\* count mutex
SendReturn(t) ==
    /\ Ready(t)
    /\ Top(t).k = "send"
    /\ Top(t).i > SendSteps(Top(t).n)
    /\ join_all(Top(t).workers)
    /\ numThreads' = [numThreads EXCEPT ![cfg.strategy[Top(t).n]] =
                                           @ + Cardinality(Top(t).workers)]
    /\ stack' = Pop(t)
    /\ UNCHANGED <<cfg, multiVars, dataLocks, lifeVars, pipeVars, updateMutex,
                   inputDirtyMutex, script, ops, wirings, h>>

\* a slot delivers the signal to the next connected callback
Deliver(t) ==
    /\ Busy(t)
    /\ ~h.crashed
    /\ Top(t).todo # <<>>
    /\ stack' = PushOn(t, [Top(t) EXCEPT !.todo = Tail(@)], Head(Top(t).todo))
    /\ UNCHANGED <<cfg, ext, pipeVars, updateMutex, inputDirtyMutex, script, ops, wirings, h>>

(***************************************************************************)
(* SimpleProcessNode::onUpdate(signal, numOutput).                         *)
(***************************************************************************)
\* the update mutex is taken for the whole of onUpdate
OnUpdateLock(t) ==
    /\ Ready(t)
    /\ Top(t).k = "onUpdate"
    /\ Top(t).pc = "lock"
    /\ MutexFree(updateMutex, Top(t).n)
    /\ updateMutex' = [updateMutex EXCEPT ![Top(t).n] = t]
    /\ stack' = SetTop(t, [Top(t) EXCEPT !.pc = "check",
                              !.g = [quiet |-> h.quiet[Top(t).n],
                                     owed |-> h.owed[Top(t).n],
                                     failed |-> h.failed[Top(t).n],
                                     dirty |-> FALSE, computed |-> FALSE]])
    /\ h' = IF OneThread THEN [h EXCEPT !.updated = @ \cup {Top(t).n}]
            ELSE [h EXCEPT !.quiet[Top(t).n] = TRUE]
    /\ UNCHANGED <<cfg, ext, pipeVars, inputDirtyMutex, script, ops, wirings>>

\* under the dirty mutex: if (haveDirtyInput()) { setOutputsDirty();
\* sendUpdateSignals(numOutput); }
OnUpdateInputs(t) ==
    /\ Ready(t)
    /\ Top(t).k = "onUpdate"
    /\ Top(t).pc = "check"
    /\ MutexFree(inputDirtyMutex, Top(t).n)
    /\ IF haveDirtyInput(Top(t).n)
       THEN /\ inputDirtyMutex' = unlock(inputDirtyMutex, Top(t).n, t)
            /\ outputDirty' = [outputDirty EXCEPT ![Top(t).n] = setOutputsDirty(Top(t).n, TRUE)]
            /\ stack' = PushOn(t, [Top(t) EXCEPT !.pc = "recheck"],
                               SendFrame(Top(t).n, Top(t).a))
       ELSE /\ stack' = SetTop(t, [Top(t) EXCEPT !.pc = "recheck"])
            /\ UNCHANGED <<outputDirty, inputDirtyMutex>>
    /\ UNCHANGED <<cfg, ext, inputDirty, assignedOutput, inData, outData, conn,
                   updateMutex, script, ops, wirings, h>>

\* if (haveDirtyOutput() && requiredInputsPresent()) { setOutputsDirty(false);
\* lockInputs(0); }: the flags are cleared and lockInputs(0) entered
OnUpdateOutputs(t) ==
    /\ Ready(t)
    /\ Top(t).k = "onUpdate"
    /\ Top(t).pc = "recheck"
    /\ LET n == Top(t).n
       IN IF haveDirtyOutput(n) /\ requiredInputsPresent(n)
          THEN /\ outputDirty' = [outputDirty EXCEPT ![n] = setOutputsDirty(n, FALSE)]
               /\ stack' = SetTop(t, [Top(t) EXCEPT
                                         !.pc = IF cfg.numInputs[n] = 0 THEN "lockOutputs"
                                                ELSE "lockInputs",
                                         !.i = 1,
                                         !.g.dirty = TRUE, !.g.computed = TRUE,
                                         !.g.quiet = (@ /\ h.quiet[n]),
                                         !.g.failed = (@ /\ h.failed[n])])
               /\ h' = IF ~OneThread THEN [h EXCEPT !.owed[n] = FALSE] ELSE
                        [h EXCEPT !.cnt[n] = IF @ < 2 THEN @ + 1 ELSE @,
                                  !.failed[n] = FALSE,
                                  !.began = @ \cup {n},
                                  !.late = (@ \/ \E m \in h.began : n \in UpstreamOf(m)),
                                  !.owed[n] = FALSE,
                                  !.ran = @ \cup {n},
                                  !.pending = {y \in @ : y[1] # n}]
          ELSE /\ stack' = SetTop(t, [Top(t) EXCEPT !.pc = "unlock",
                                         !.g.dirty = haveDirtyOutput(n)])
               /\ UNCHANGED <<outputDirty, h>>
    /\ UNCHANGED <<cfg, ext, inputDirty, assignedOutput, inData, outData, conn,
                   updateMutex, inputDirtyMutex, script, ops, wirings>>

(***************************************************************************)
(* The locking strategies.  A lock is a record of the carrier, the thread   *)
(* that holds its mutex, the node and slot it holds it for, and the mode:  *)
(* "r" for a boost::shared_lock, "w" for a boost::unique_lock.             *)
(***************************************************************************)
Lock(c, t, n, kind, i, mode) ==
    [c |-> c, t |-> t, n |-> n, kind |-> kind, i |-> i, mode |-> mode]

\* the strategies whose lockInput takes a shared lock
locksInputs(s) == s \in {"Input", "Full"}

\* the strategies whose lockOutput creates the data and takes a unique lock
locksOutputs(s) == s \in {"Output", "Full"}

\* boost::shared_mutex: a shared lock waits for the writer, a unique lock
\* for everybody
CanLock(c, mode) ==
    \A l \in dataLocks : l.c = c => (mode = "r" /\ l.mode = "r")

\* InputBase::getAssignedSharedPtr(): the carrier the input holds
getAssignedSharedPtr(n, i) == inData[n][i]

\* what is done after the step i of n that lockInputs or lockOutputs is at
NextLockStep(n, pc, i) ==
    IF pc = "lockInputs"
    THEN (IF i < cfg.numInputs[n] THEN <<"lockInputs", i + 1>> ELSE <<"lockOutputs", 1>>)
    ELSE (IF i < cfg.numOutputs[n] THEN <<"lockOutputs", i + 1>> ELSE <<"compute", 1>>)

\* lockInputs(i): LockingStrategy::lockInput(getInput(i), lockInputs(i + 1)).
\* InputLockingStrategy takes the shared lock of the carrier of an input
\* that has an assigned output; if that input holds no carrier it calls
\* getMutex() through a null pointer and the program ends
lockInput(t) ==
    /\ Ready(t)
    /\ Top(t).k = "onUpdate"
    /\ Top(t).pc = "lockInputs"
    /\ LET n == Top(t).n
           i == Top(t).i
           data == getAssignedSharedPtr(n, i)
           step == NextLockStep(n, "lockInputs", i)
           next == [Top(t) EXCEPT !.pc = step[1], !.i = step[2]]
       IN IF locksInputs(cfg.strategy[n]) /\ hasAssignedOutput(n, i)
          THEN IF data = Null
               THEN /\ h' = [h EXCEPT !.crashed = TRUE]
                    /\ UNCHANGED <<stack, dataLocks>>
               ELSE /\ CanLock(data, "r")
                    /\ dataLocks' = dataLocks \cup {Lock(data, t, n, "in", i, "r")}
                    /\ stack' = SetTop(t, next)
                    /\ UNCHANGED h
          ELSE /\ stack' = SetTop(t, next)
               /\ UNCHANGED <<dataLocks, h>>
    /\ UNCHANGED <<cfg, multiVars, numThreads, lifeVars, pipeVars,
                   updateMutex, inputDirtyMutex, script, ops, wirings>>

\* lockOutputs(i): LockingStrategy::lockOutput(getOutput(i), lockOutputs(i + 1)).
\* OutputLockingStrategy creates the data of an output that has none, without
\* a PointerSet signal, and takes the unique lock of the carrier; after the
\* last output updateOutputs() is entered
lockOutput(t) ==
    /\ Ready(t)
    /\ Top(t).k = "onUpdate"
    /\ Top(t).pc = "lockOutputs"
    /\ LET n == Top(t).n
           o == Top(t).i
           data == IF outData[n][o] # Null THEN outData[n][o]
                   ELSE make_shared(cfg.outputType[n][o], UsedCarriers)
           step == NextLockStep(n, "lockOutputs", o)
           next == [Top(t) EXCEPT !.pc = step[1], !.i = step[2]]
       IN IF locksOutputs(cfg.strategy[n])
          THEN /\ CanLock(data, "w")
               /\ outData' = [outData EXCEPT ![n][o] = data]
               /\ dataLocks' = dataLocks \cup {Lock(data, t, n, "out", o, "w")}
               /\ stack' = SetTop(t, next)
          ELSE /\ stack' = SetTop(t, next)
               /\ UNCHANGED <<outData, dataLocks>>
    /\ UNCHANGED <<cfg, multiVars, numThreads, lifeVars, inputDirty, outputDirty,
                   assignedOutput, inData, conn,
                   updateMutex, inputDirtyMutex, script, ops, wirings, h>>

\* the locks that t took for n are released when the calls of lockInputs
\* and lockOutputs return
ReleaseLocks(t, n) == {l \in dataLocks : ~(l.t = t /\ l.n = n)}

\* updateOutputs() of a node that gives its outputs new carriers:
\* OutputImpl::operator=(carrier) replaces the carrier and notifies
ComputeSet(t) ==
    /\ Ready(t)
    /\ Top(t).k = "onUpdate"
    /\ Top(t).pc = "compute"
    /\ cfg.sets[Top(t).n]
    /\ Top(t).i <= cfg.numOutputs[Top(t).n]
    /\ LET n == Top(t).n
           o == Top(t).i
       IN /\ outData' = [outData EXCEPT ![n][o] =
                            make_shared(cfg.outputType[n][o], UsedCarriers)]
          /\ stack' = SetTop(t, [Top(t) EXCEPT !.i = o + 1, !.todo = notifyPointerSet(n, o)])
    /\ UNCHANGED <<cfg, ext, inputDirty, outputDirty, assignedOutput, inData, conn,
                   updateMutex, inputDirtyMutex, script, ops, wirings, h>>

\* updateOutputs() returns
ComputeReturn(t) ==
    /\ Ready(t)
    /\ Top(t).k = "onUpdate"
    /\ Top(t).pc = "compute"
    /\ ~cfg.sets[Top(t).n] \/ Top(t).i > cfg.numOutputs[Top(t).n]
    /\ stack' = SetTop(t, [Top(t) EXCEPT !.pc = "unlock"])
    /\ dataLocks' = ReleaseLocks(t, Top(t).n)
    /\ UNCHANGED <<cfg, multiVars, numThreads, lifeVars, pipeVars,
                   updateMutex, inputDirtyMutex, script, ops, wirings, h>>

\* what thread t holds of the mutexes m is released
Unwind(m, t) == [n \in Nodes |-> IF m[n] = t THEN Null ELSE m[n]]

\* updateOutputs() throws: the error leaves onUpdate, the slot that sent
\* Update, sendUpdateSignals and every caller up to the dereference, and the
\* scoped locks on the way are released.  The output flags were cleared before
\* lockInputs(0) and the input flags before Update was sent
ComputeRaise(t) ==
    /\ Ready(t)
    /\ Top(t).k = "onUpdate"
    /\ Top(t).pc = "compute"
    /\ Top(t).i = 1
    /\ cfg.throws[Top(t).n]
    /\ stack' = [stack EXCEPT ![t] = <<>>]
    /\ updateMutex' = Unwind(updateMutex, t)
    /\ inputDirtyMutex' = Unwind(inputDirtyMutex, t)
    /\ dataLocks' = {l \in dataLocks : l.t # t}
    /\ h' = [h EXCEPT !.failed[Top(t).n] = TRUE, !.thrown = ops]
    /\ UNCHANGED <<cfg, multiVars, numThreads, lifeVars, pipeVars, script, ops, wirings>>

\* onUpdate returns and releases the update mutex
OnUpdateReturn(t) ==
    /\ Ready(t)
    /\ Top(t).k = "onUpdate"
    /\ Top(t).pc = "unlock"
    /\ updateMutex' = [updateMutex EXCEPT ![Top(t).n] = Null]
    /\ stack' = Pop(t)
    /\ h' = IF OneThread THEN [h EXCEPT !.quiet[Top(t).n] = TRUE]
            ELSE [h EXCEPT !.quiet[Top(t).n] = @ /\ Waiting(t, Top(t).n)]
    /\ UNCHANGED <<cfg, ext, pipeVars, inputDirtyMutex, script, ops, wirings>>

(***************************************************************************)
(* The forward handlers of SimpleProcessNode and of InputImpl.             *)
(***************************************************************************)
\* the callbacks of the node that an InputSet signal on input i invokes:
\* onInputModified, and onInputSet too if the input is optional
InputSetCallbacks(n, i) == IF cfg.inputRequired[n][i] THEN 1 ELSE 2

Repeat(s, k) == Flatten([j \in 1..k |-> s])

\* _inputDirty[numInput] = true
setInputDirty(n, i) == [inputDirty EXCEPT ![n][i] = TRUE]

\* onInputModified(signal, numInput): under the dirty mutex, set the flag
\* and sendModifiedSignals(numInput)
onInputModified(t) ==
    /\ Ready(t)
    /\ Top(t).k = "mod"
    /\ Top(t).pc = "enter"
    /\ Top(t).sig = "Modified"
    /\ MutexFree(inputDirtyMutex, Top(t).n)
    /\ inputDirtyMutex' = [inputDirtyMutex EXCEPT ![Top(t).n] = t]
    /\ inputDirty' = setInputDirty(Top(t).n, Top(t).a)
    /\ stack' = SetTop(t, [Top(t) EXCEPT !.pc = "fwd",
                              !.todo = sendModifiedSignals(Top(t).n, Top(t).a)])
    /\ h' = Touch(h, Top(t).n)
    /\ UNCHANGED <<cfg, ext, outputDirty, assignedOutput, inData, outData, conn,
                   updateMutex, script, ops, wirings>>

\* an InputSet signal: onInputModified and, for an optional input, onInputSet
\* do the same one after the other
onInputSet(t) ==
    /\ Ready(t)
    /\ Top(t).k = "mod"
    /\ Top(t).pc = "enter"
    /\ Top(t).sig = "InputSet"
    /\ MutexFree(inputDirtyMutex, Top(t).n)
    /\ inputDirtyMutex' = [inputDirtyMutex EXCEPT ![Top(t).n] = t]
    /\ inputDirty' = [inputDirty EXCEPT ![Top(t).n][Top(t).a] = TRUE]
    /\ stack' = SetTop(t, [Top(t) EXCEPT !.pc = "fwd",
                              !.todo = Repeat(sendModifiedSignals(Top(t).n, Top(t).a),
                                              InputSetCallbacks(Top(t).n, Top(t).a))])
    /\ h' = Touch(h, Top(t).n)
    /\ UNCHANGED <<cfg, ext, outputDirty, assignedOutput, inData, outData, conn,
                   updateMutex, script, ops, wirings>>

\* an InputSetToSharedPointer signal is a Modified and an InputSet signal as
\* well: onInputModified (and onInputSet) set the flag, onInputSetToSharedPointer
\* clears it and sets the outputs dirty; the order in which the signalling
\* library invokes them decides which write of the flag is the last
onInputSetToSharedPointer(t) ==
    /\ Ready(t)
    /\ Top(t).k = "mod"
    /\ Top(t).pc = "enter"
    /\ Top(t).sig = "InputSetToSharedPointer"
    /\ MutexFree(inputDirtyMutex, Top(t).n)
    /\ inputDirtyMutex' = [inputDirtyMutex EXCEPT ![Top(t).n] = t]
    /\ \E dirty \in BOOLEAN :
          inputDirty' = [inputDirty EXCEPT ![Top(t).n][Top(t).a] = dirty]
    /\ outputDirty' = [outputDirty EXCEPT ![Top(t).n] = setOutputsDirty(Top(t).n, TRUE)]
    /\ stack' = SetTop(t, [Top(t) EXCEPT !.pc = "fwd",
                              !.todo = Repeat(sendModifiedSignals(Top(t).n, Top(t).a),
                                              InputSetCallbacks(Top(t).n, Top(t).a) + 1)])
    /\ h' = Touch(h, Top(t).n)
    /\ UNCHANGED <<cfg, ext, assignedOutput, inData, outData, conn,
                   updateMutex, script, ops, wirings>>

\* the handler returns and releases the dirty mutex
ModifiedReturn(t) ==
    /\ Ready(t)
    /\ Top(t).k \in {"mod", "multimod"}
    /\ Top(t).pc = "fwd"
    /\ inputDirtyMutex' = [inputDirtyMutex EXCEPT ![Top(t).n] = Null]
    /\ stack' = Pop(t)
    /\ UNCHANGED <<cfg, ext, pipeVars, updateMutex, script, ops, wirings, h>>

\* InputImpl::onOutputPointerSet: setDataFromOutput(carrier of the assigned
\* output).  Without an assigned output the handler dereferences a null
\* pointer and the program ends; a failed cast, whose AssignmentError would
\* leave through the signal, ends the run as well
onOutputPointerSet(t) ==
    /\ Ready(t)
    /\ Top(t).k = "mod"
    /\ Top(t).pc = "enter"
    /\ Top(t).sig = "PointerSet"
    /\ LET n == Top(t).n
           i == Top(t).a
           out == assignedOutput[n][i]
           castedData == IF out = NoOutput THEN Null
                         ELSE dynamic_pointer_cast(InputType(n, i), outData[out[1]][out[2]])
       IN IF castedData = Null
          THEN /\ h' = [h EXCEPT !.crashed = TRUE]
               /\ UNCHANGED <<inData, stack>>
          ELSE /\ inData' = [inData EXCEPT ![n][i] = castedData]
               /\ stack' = SetTop(t, [Top(t) EXCEPT !.sig = "InputSet"])
               /\ UNCHANGED h
    /\ UNCHANGED <<cfg, ext, inputDirty, outputDirty, assignedOutput, outData, conn,
                   updateMutex, inputDirtyMutex, script, ops, wirings>>

(***************************************************************************)
(* SimpleProcessNode::setDirty(output).                                    *)
(***************************************************************************)
\* whether the call repeats the call that returned last, and the state
\* that call has left
Again(n, o) ==
    IF OneThread /\ h.last.op = "setDirty" /\ h.last.n = n /\ h.last.i = o
    THEN <<pipeVars, multiVars>>
    ELSE <<>>

CallSetDirty(t, n, o) ==
    /\ CanCall(t)
    /\ <<n, o>> \in AllOutputs
    /\ n \in alive
    /\ stack' = [stack EXCEPT ![t] =
                    <<[Frame("setDirty", n, o, "write") EXCEPT !.g = Again(n, o)]>>]
    /\ ops' = ops + 1
    /\ h' = [h EXCEPT !.last = NoCall, !.done = FALSE]
    /\ UNCHANGED <<cfg, ext, pipeVars, updateMutex, inputDirtyMutex, script, wirings>>

\* _outputDirty[outputNum] = true; _modified[outputNum]();
setDirty(t) ==
    /\ Ready(t)
    /\ Top(t).k = "setDirty"
    /\ Top(t).pc = "write"
    /\ outputDirty' = [outputDirty EXCEPT ![Top(t).n][Top(t).a] = TRUE]
    /\ stack' = SetTop(t, [Top(t) EXCEPT !.pc = "emit",
                              !.todo = EmitModified(Top(t).n, Top(t).a)])
    /\ h' = IF OneThread
            THEN [Touch(h, Top(t).n) EXCEPT !.pending = @ \cup {<<Top(t).n, Top(t).a>>}]
            ELSE Touch(h, Top(t).n)
    /\ UNCHANGED <<cfg, ext, inputDirty, assignedOutput, inData, outData, conn,
                   updateMutex, inputDirtyMutex, script, ops, wirings>>

SetDirtyReturn(t) ==
    /\ Ready(t)
    /\ Top(t).k = "setDirty"
    /\ Top(t).pc = "emit"
    /\ stack' = Pop(t)
    /\ h' = IF OneThread
            THEN [h EXCEPT !.last = IF h.last.op = "lost"
                                    THEN NoCall
                                    ELSE [op |-> "setDirty", n |-> Top(t).n,
                                          i |-> Top(t).a, src |-> NoOutput,
                                          raised |-> FALSE, pre |-> Top(t).g]]
            ELSE h
    /\ UNCHANGED <<cfg, ext, pipeVars, updateMutex, inputDirtyMutex, script, ops, wirings>>

(***************************************************************************)
(* InputImpl::accept(output), accept(pointer) and unset().                 *)
(***************************************************************************)
CallAcceptOutput(t, n, i, m, o) ==
    /\ ~Busy(t)
    /\ <<n, i>> \in AllInputs
    /\ <<m, o>> \in AllOutputs
    /\ m < n
    /\ WiringCall(t, AcceptOutputOp(n, i, m, o))
    /\ stack' = [stack EXCEPT ![t] =
                    <<[Frame("acceptOutput", n, i, "accept") EXCEPT
                          !.src = <<m, o>>, !.g = Snapshot(n, i)]>>]
    /\ h' = [h EXCEPT !.last = NoCall, !.done = FALSE, !.pending = {}]
    /\ UNCHANGED <<cfg, ext, pipeVars, updateMutex, inputDirtyMutex>>

\* accept(output): connect the senders and receivers, setAssignedOutput(output),
\* and if the output holds a carrier setDataFromOutput(carrier), which throws
\* AssignmentError if the cast fails and else stores the carrier and emits
\* InputSet
acceptOutput(t) ==
    /\ Ready(t)
    /\ Top(t).k = "acceptOutput"
    /\ Top(t).pc = "accept"
    /\ LET n == Top(t).n
           i == Top(t).a
           data == outData[Top(t).src[1]][Top(t).src[2]]
           castedData == dynamic_pointer_cast(InputType(n, i), data)
       IN /\ conn' = conn \cup {<<Top(t).src, <<n, i>>>>}
          /\ assignedOutput' = [assignedOutput EXCEPT ![n][i] = Top(t).src]
          /\ IF data = Null
             THEN /\ stack' = SetTop(t, [Top(t) EXCEPT !.pc = "ret"])
                  /\ h' = Touch(h, n)
                  /\ UNCHANGED inData
             ELSE IF castedData = Null
             THEN /\ stack' = Pop(t)
                  /\ h' = [Touch(h, n) EXCEPT !.last = Returned(Top(t), TRUE)]
                  /\ UNCHANGED inData
             ELSE /\ inData' = [inData EXCEPT ![n][i] = castedData]
                  /\ stack' = SetTop(t, [Top(t) EXCEPT !.pc = "ret",
                                            !.todo = <<ModFrame(<<n, i>>, "InputSet")>>])
                  /\ h' = Touch(h, n)
    /\ UNCHANGED <<cfg, ext, inputDirty, outputDirty, outData,
                   updateMutex, inputDirtyMutex, script, ops, wirings>>

CallAcceptPointer(t, n, i, c) ==
    /\ ~Busy(t)
    /\ <<n, i>> \in AllInputs
    /\ WiringCall(t, AcceptPointerOp(n, i, c))
    /\ c \in {make_shared("Int", UsedCarriers), make_shared("Str", UsedCarriers)}
    /\ stack' = [stack EXCEPT ![t] =
                    <<[Frame("acceptPointer", n, i, "accept") EXCEPT
                          !.src = <<c, Null>>, !.g = Snapshot(n, i)]>>]
    /\ h' = [h EXCEPT !.last = NoCall, !.done = FALSE, !.pending = {}]
    /\ UNCHANGED <<cfg, ext, pipeVars, updateMutex, inputDirtyMutex>>

\* accept(pointer): unsetAssignedOutput(), then setDataFromPointer(pointer),
\* which throws AssignmentError if the cast fails and else stores the carrier
\* and emits InputSetToSharedPointer.  For a null pointer the error message
\* evaluates typeName(*data): the program ends or the error is thrown
acceptPointer(t) ==
    /\ Ready(t)
    /\ Top(t).k = "acceptPointer"
    /\ Top(t).pc = "accept"
    /\ LET n == Top(t).n
           i == Top(t).a
           castedData == dynamic_pointer_cast(InputType(n, i), Top(t).src[1])
       IN /\ assignedOutput' = unsetAssignedOutput(n, i)
          /\ IF castedData = Null
             THEN /\ \/ /\ stack' = Pop(t)
                        /\ h' = [Touch(h, n) EXCEPT !.last = Returned(Top(t), TRUE)]
                     \/ /\ Top(t).src[1] = Null
                        /\ h' = [Touch(h, n) EXCEPT !.crashed = TRUE]
                        /\ UNCHANGED stack
                  /\ UNCHANGED inData
             ELSE /\ inData' = [inData EXCEPT ![n][i] = castedData]
                  /\ stack' = SetTop(t, [Top(t) EXCEPT !.pc = "ret",
                                            !.todo = <<ModFrame(<<n, i>>,
                                                                "InputSetToSharedPointer")>>])
                  /\ h' = Touch(h, n)
    /\ UNCHANGED <<cfg, ext, inputDirty, outputDirty, outData, conn,
                   updateMutex, inputDirtyMutex, script, ops, wirings>>

\* accept returns true
AcceptReturn(t) ==
    /\ Ready(t)
    /\ Top(t).k \in {"acceptOutput", "acceptPointer", "addInput"}
    /\ Top(t).pc = "ret"
    /\ stack' = Pop(t)
    /\ h' = [h EXCEPT !.last = Returned(Top(t), FALSE)]
    /\ UNCHANGED <<cfg, ext, pipeVars, updateMutex, inputDirtyMutex, script, ops, wirings>>

\* unset(): drop the carrier; if an output is assigned, disconnect from it and
\* forget it; emit InputUnset, for which the node has no callback
unset(t, n, i) ==
    /\ CanCall(t)
    /\ <<n, i>> \in AllInputs
    /\ wirings < MaxWirings
    /\ <<n, i>> \in cfg.rewire
    /\ inData' = [inData EXCEPT ![n][i] = Null]
    /\ conn' = IF hasAssignedOutput(n, i)
               THEN conn \ {<<assignedOutput[n][i], <<n, i>>>>}
               ELSE conn
    /\ assignedOutput' = unsetAssignedOutput(n, i)
    /\ ops' = ops + 1
    /\ wirings' = wirings + 1
    /\ h' = [Touch(h, n) EXCEPT
                !.done = FALSE, !.pending = {},
                !.last = [op |-> "unset", n |-> n, i |-> i, src |-> NoOutput,
                          raised |-> FALSE, pre |-> Snapshot(n, i)]]
    /\ UNCHANGED <<cfg, ext, inputDirty, outputDirty, outData,
                   updateMutex, inputDirtyMutex, stack, script>>

(***************************************************************************)
(* ProcessNode: the look-up of inputs, multi-inputs and outputs by number  *)
(* or by name, and the wiring calls that go through it.                    *)
(***************************************************************************)
Found(slot) == [error |-> "none", slot |-> slot]
NotFound(error) == [error |-> error, slot |-> 0]

\* the first slot registered under the name, as the loop over the slots finds it
FirstNamed(names, name) ==
    CHOOSE i \in DOMAIN names : names[i] = name /\ \A k \in 1..(i - 1) : names[k] # name

\* ProcessNode::getInput(i), getInput(name)
getInput(n, key) ==
    IF key.by = "index"
    THEN (IF cfg.numInputs[n] <= key.index THEN NotFound("NotEnoughInputs")
          ELSE Found(key.index + 1))
    ELSE (IF \E i \in DOMAIN cfg.inputNames[n] : cfg.inputNames[n][i] = key.name
          THEN Found(FirstNamed(cfg.inputNames[n], key.name))
          ELSE NotFound("NoSuchInput"))

\* ProcessNode::getMultiInput(i), getMultiInput(name)
getMultiInput(n, key) ==
    IF key.by = "index"
    THEN (IF cfg.numMultiInputs[n] <= key.index THEN NotFound("NotEnoughInputs")
          ELSE Found(key.index + 1))
    ELSE (IF \E i \in DOMAIN cfg.multiInputNames[n] : cfg.multiInputNames[n][i] = key.name
          THEN Found(FirstNamed(cfg.multiInputNames[n], key.name))
          ELSE NotFound("NoSuchInput"))

\* ProcessNode::getOutput(i), getOutput(name)
getOutput(n, key) ==
    IF key.by = "index"
    THEN (IF cfg.numOutputs[n] <= key.index THEN NotFound("NotEnoughOutputs")
          ELSE Found(key.index + 1))
    ELSE (IF \E o \in DOMAIN cfg.outputNames[n] : cfg.outputNames[n][o] = key.name
          THEN Found(FirstNamed(cfg.outputNames[n], key.name))
          ELSE NotFound("NoSuchOutput"))

\* the source as accept gets it: an output, or a pointer.  setInput(i, input)
\* and addInput(i, input) pass the assigned output of the other input if it
\* has one and else the carrier it holds
Source(src) ==
    LET out == getOutput(src.n, src.key)
        in == getInput(src.n, src.key)
    IN CASE src.kind = "output" ->
              [error |-> out.error, kind |-> "output", out |-> <<src.n, out.slot>>,
               data |-> Null]
         [] src.kind = "input" ->
              IF in.error # "none"
              THEN [error |-> in.error, kind |-> "pointer", out |-> NoOutput, data |-> Null]
              ELSE IF hasAssignedOutput(src.n, in.slot)
              THEN [error |-> "none", kind |-> "output",
                    out |-> assignedOutput[src.n][in.slot], data |-> Null]
              ELSE [error |-> "none", kind |-> "pointer", out |-> NoOutput,
                    data |-> getAssignedSharedPtr(src.n, in.slot)]
         [] src.kind = "pointer" ->
              [error |-> "none", kind |-> "pointer", out |-> NoOutput,
               data |-> make_shared(src.T, UsedCarriers)]
         [] OTHER ->
              [error |-> "none", kind |-> "none", out |-> NoOutput, data |-> Null]

\* the wiring of the whole pipeline
Wiring == <<assignedOutput, inData, outData, conn, inputDirty, outputDirty, multiVars>>

\* the call raised the error of a look-up
LookupRaised(c, error) ==
    [op |-> c.op, n |-> c.n, i |-> 0, src |-> NoOutput, raised |-> TRUE, pre |-> Wiring,
     call |-> c, error |-> error]

\* the application makes the wiring call c: the next one of the start-up
\* script, or later one from the menu
KeyedCall(t, c) ==
    \/ /\ ScriptCall(t, c)
       /\ script' = Tail(script)
       /\ UNCHANGED <<ops, wirings>>
    \/ /\ CanCall(t)
       /\ wirings < MaxWirings
       /\ c \in cfg.menu
       /\ ops' = ops + 1
       /\ wirings' = wirings + 1
       /\ UNCHANGED script

\* the history at the start of a wiring call
Calling(hist) == [hist EXCEPT !.last = NoCall, !.done = FALSE, !.pending = {},
                              !.ran = {}, !.unsetPending = {}, !.clearPending = {}]

\* setInput(key, source): the source is evaluated, getInput(key) looked up,
\* and accept called on the input
setInput(t, c) ==
    /\ ~Busy(t)
    /\ c.op = "setInput"
    /\ KeyedCall(t, c)
    /\ LET s == Source(c.src)
           r == getInput(c.n, c.key)
           error == IF s.error # "none" THEN s.error ELSE r.error
       IN IF error # "none"
          THEN /\ h' = [Calling(h) EXCEPT !.last = LookupRaised(c, error)]
               /\ UNCHANGED stack
          ELSE /\ stack' = [stack EXCEPT ![t] =
                               <<[Frame(IF s.kind = "output" THEN "acceptOutput"
                                        ELSE "acceptPointer", c.n, r.slot, "accept") EXCEPT
                                     !.src = IF s.kind = "output" THEN s.out
                                             ELSE <<s.data, Null>>,
                                     !.g = Snapshot(c.n, r.slot), !.call = c]>>]
               /\ h' = Calling(h)
    /\ UNCHANGED <<cfg, ext, pipeVars, updateMutex, inputDirtyMutex>>

\* unsetInput(key): getInput(key).unset()
unsetInput(t, c) ==
    /\ ~Busy(t)
    /\ c.op = "unsetInput"
    /\ KeyedCall(t, c)
    /\ LET r == getInput(c.n, c.key)
           n == c.n
           i == r.slot
       IN IF r.error # "none"
          THEN /\ h' = [Calling(h) EXCEPT !.last = LookupRaised(c, r.error)]
               /\ UNCHANGED <<inData, conn, assignedOutput>>
          ELSE /\ inData' = [inData EXCEPT ![n][i] = Null]
               /\ conn' = IF hasAssignedOutput(n, i)
                          THEN conn \ {<<assignedOutput[n][i], <<n, i>>>>}
                          ELSE conn
               /\ assignedOutput' = unsetAssignedOutput(n, i)
               /\ h' = [Touch(Calling(h), n) EXCEPT
                           !.unsetPending =
                               IF isSet(n, i) /\ ~cfg.inputRequired[n][i] /\ n \in h.ran
                               THEN {n} ELSE {},
                           !.last = [op |-> "unset", n |-> n, i |-> i, src |-> NoOutput,
                                     raised |-> FALSE, pre |-> Snapshot(n, i),
                                     call |-> c, error |-> "none"]]
    /\ UNCHANGED <<cfg, ext, inputDirty, outputDirty, outData,
                   updateMutex, inputDirtyMutex, stack>>

(***************************************************************************)
(* Multi-inputs: Inputs::__accept and clear(), and the handlers of the     *)
(* node.                                                                   *)
(***************************************************************************)
\* addInput(key, source): the source is evaluated, getMultiInput(key) looked
\* up, and accept called on the multi-input
addInput(t, c) ==
    /\ ~Busy(t)
    /\ c.op = "addInput"
    /\ KeyedCall(t, c)
    /\ LET s == Source(c.src)
           r == getMultiInput(c.n, c.key)
           error == IF s.error # "none" THEN s.error ELSE r.error
       IN IF error # "none"
          THEN /\ h' = [Calling(h) EXCEPT !.last = LookupRaised(c, error)]
               /\ UNCHANGED stack
          ELSE /\ stack' = [stack EXCEPT ![t] =
                               <<[Frame("addInput", c.n, r.slot, "accept") EXCEPT
                                     !.src = IF s.kind = "output" THEN s.out
                                             ELSE <<s.data, Null>>,
                                     !.sig = s.kind,
                                     !.g = Wiring, !.call = c]>>]
               /\ h' = Calling(h)
    /\ UNCHANGED <<cfg, ext, pipeVars, updateMutex, inputDirtyMutex>>

\* newInput.accept(source) returns true unless the cast of the carrier fails
accept(T, data) == data = Null \/ dynamic_pointer_cast(T, data) # Null

\* Inputs::__accept: a local Input accepts the source, which throws
\* AssignmentError if the cast of the carrier fails; a copy of it becomes the
\* new entry; a slot is added to every Slots of the multi-input and the
\* callbacks for the entry are made and connected to the output; InputAdded
\* makes onInputAdded append a dirty flag.  The InputSet signal that the local
\* Input emits is sent before the callbacks exist.  accept(pointer) with a
\* null pointer evaluates typeName(*data): the program ends or the error is
\* thrown
__accept(t) ==
    /\ Ready(t)
    /\ Top(t).k = "addInput"
    /\ Top(t).pc = "accept"
    /\ MutexFree(inputDirtyMutex, Top(t).n)
    /\ LET n == Top(t).n
           out == IF Top(t).sig = "output" THEN Top(t).src ELSE NoOutput
           data == IF Top(t).sig = "output" THEN outData[out[1]][out[2]] ELSE Top(t).src[1]
           castedData == dynamic_pointer_cast(InputType(n, 1), data)
           numInput == Len(multiInputs[n]) + 1
       IN IF data = Null /\ Top(t).sig # "output"
          THEN /\ UNCHANGED multiVars
               /\ \/ /\ h' = [h EXCEPT !.crashed = TRUE]
                     /\ UNCHANGED stack
                  \/ /\ stack' = Pop(t)
                     /\ h' = [h EXCEPT !.last = Returned(Top(t), TRUE)]
          ELSE /\ IF accept(InputType(n, 1), data)
                  THEN /\ multiInputs' = [multiInputs EXCEPT
                                             ![n] = Append(@, Entry(out, castedData))]
                       /\ multiInputUpdates' = [multiInputUpdates EXCEPT ![n] = Append(@, out)]
                       /\ multiCallbacks' = IF out = NoOutput THEN multiCallbacks
                                            ELSE multiCallbacks \cup {<<out, <<n, numInput>>>>}
                       /\ multiInputDirty' = [multiInputDirty EXCEPT ![n] = Append(@, TRUE)]
                  ELSE UNCHANGED multiVars
               /\ IF data # Null /\ castedData = Null
                  THEN /\ stack' = Pop(t)
                       /\ h' = [h EXCEPT !.last = Returned(Top(t), TRUE)]
                  ELSE /\ stack' = SetTop(t, [Top(t) EXCEPT !.pc = "ret"])
                       /\ h' = Touch(h, n)
    /\ UNCHANGED <<cfg, numThreads, dataLocks, lifeVars, pipeVars,
                   updateMutex, inputDirtyMutex, script, ops, wirings>>

\* clearInputs(key): getMultiInput(key).clear(), which empties the list of
\* entries and every Slots of the multi-input; no signal is sent
clearInputs(t, c) ==
    /\ ~Busy(t)
    /\ c.op = "clearInputs"
    /\ KeyedCall(t, c)
    /\ LET r == getMultiInput(c.n, c.key)
           n == c.n
       IN IF r.error # "none"
          THEN /\ h' = [Calling(h) EXCEPT !.last = LookupRaised(c, r.error)]
               /\ UNCHANGED <<multiInputs, multiInputUpdates>>
          ELSE /\ multiInputs' = [multiInputs EXCEPT ![n] = <<>>]
               /\ multiInputUpdates' = [multiInputUpdates EXCEPT ![n] = <<>>]
               /\ h' = [Calling(h) EXCEPT
                           !.clearPending = IF n \in h.ran /\ multiInputs[n] # <<>>
                                            THEN {n} ELSE {},
                           !.last = [op |-> "clear", n |-> n, i |-> r.slot, src |-> NoOutput,
                                     raised |-> FALSE, pre |-> Wiring,
                                     call |-> c, error |-> "none"]]
    /\ UNCHANGED <<cfg, multiInputDirty, multiCallbacks, numThreads, dataLocks, lifeVars,
                   pipeVars, updateMutex, inputDirtyMutex, stack>>

\* what becomes of a signal whose callback object went away with the local
\* Input of Inputs::__accept: the callback runs as if it were there, nothing
\* happens, or the program ends
Dangling == {"heard", "lost", "crash"}

\* onMultiInputModified(signal, numInput, numMultiInput): under the dirty
\* mutex, set the flag and sendModifiedSignals(numInput, numMultiInput).  The
\* ProcessNodeCallback that leads here was owned by the local Input
onMultiInputModified(t) ==
    /\ Ready(t)
    /\ Top(t).k = "multimod"
    /\ Top(t).pc = "enter"
    /\ Top(t).sig = "Modified"
    /\ \E outcome \in Dangling :
          CASE outcome = "heard" ->
                  /\ MutexFree(inputDirtyMutex, Top(t).n)
                  /\ inputDirtyMutex' = [inputDirtyMutex EXCEPT ![Top(t).n] = t]
                  /\ multiInputDirty' = [multiInputDirty EXCEPT ![Top(t).n][Top(t).a] = TRUE]
                  /\ stack' = SetTop(t, [Top(t) EXCEPT !.pc = "fwd",
                                            !.todo = sendMultiModifiedSignals(Top(t).n)])
                  /\ h' = Touch(h, Top(t).n)
            [] outcome = "lost" ->
                  /\ stack' = Pop(t)
                  /\ h' = IF OneThread /\ stack[t][1].k = "setDirty"
                          THEN [h EXCEPT !.last = [op |-> "lost"]]
                          ELSE h
                  /\ UNCHANGED <<inputDirtyMutex, multiInputDirty>>
            [] OTHER ->
                  /\ h' = [h EXCEPT !.crashed = TRUE]
                  /\ UNCHANGED <<inputDirtyMutex, multiInputDirty, stack>>
    /\ UNCHANGED <<cfg, multiInputs, multiInputUpdates, multiCallbacks, numThreads,
                   dataLocks, lifeVars, pipeVars, updateMutex, script, ops, wirings>>

\* OutputPointerSet for an entry of a multi-input: the callback is bound to
\* the local Input of Inputs::__accept, so onOutputPointerSet runs on an
\* object that is gone.  The entry, a copy, keeps the carrier it has; the
\* InputSet signal that the handler emits is a Modified for the node
onMultiOutputPointerSet(t) ==
    /\ Ready(t)
    /\ Top(t).k = "multimod"
    /\ Top(t).pc = "enter"
    /\ Top(t).sig = "PointerSet"
    /\ \E outcome \in Dangling :
          CASE outcome = "heard" ->
                  /\ stack' = SetTop(t, [Top(t) EXCEPT !.sig = "Modified"])
                  /\ UNCHANGED h
            [] outcome = "lost" ->
                  /\ stack' = Pop(t)
                  /\ UNCHANGED h
            [] OTHER ->
                  /\ h' = [h EXCEPT !.crashed = TRUE]
                  /\ UNCHANGED stack
    /\ UNCHANGED <<cfg, ext, pipeVars, updateMutex, inputDirtyMutex, script, ops, wirings>>

(***************************************************************************)
(* The specifications.                                                     *)
(***************************************************************************)
Pull(t) ==
    \/ updateInputs(t)
    \/ UpdateInputsReturn(t)
    \/ sendUpdateSignals(t)
    \/ SendReturn(t)
    \/ Deliver(t)
    \/ OnUpdateLock(t)
    \/ OnUpdateInputs(t)
    \/ OnUpdateOutputs(t)
    \/ lockInput(t)
    \/ lockOutput(t)
    \/ ComputeSet(t)
    \/ ComputeReturn(t)
    \/ OnUpdateReturn(t)
    \/ onInputModified(t)
    \/ onInputSet(t)
    \/ onOutputPointerSet(t)
    \/ ModifiedReturn(t)
    \/ setDirty(t)
    \/ SetDirtyReturn(t)
    \/ acceptOutput(t)
    \/ AcceptReturn(t)

Use(t) ==
    \/ \E v \in Nodes : CallDeref(t, v)
    \/ \E y \in AllOutputs : CallSetDirty(t, y[1], y[2])
    \/ \E x \in AllInputs, y \in AllOutputs : CallAcceptOutput(t, x[1], x[2], y[1], y[2])

Rewire(t) ==
    \/ \E x \in AllInputs, c \in {0 - 1, 1, 2, 3} : CallAcceptPointer(t, x[1], x[2], c)
    \/ acceptPointer(t)
    \/ onInputSetToSharedPointer(t)
    \/ \E x \in AllInputs : unset(t, x[1], x[2])

\* the steps of a pull and of the signals it sends
Update(t) ==
    \/ updateInputs(t)
    \/ UpdateInputsReturn(t)
    \/ sendUpdateSignals(t)
    \/ sendMultiUpdateSignals(t)
    \/ SendReturn(t)
    \/ Deliver(t)
    \/ OnUpdateLock(t)
    \/ OnUpdateInputs(t)
    \/ OnUpdateOutputs(t)
    \/ lockInput(t)
    \/ lockOutput(t)
    \/ ComputeSet(t)
    \/ ComputeReturn(t)
    \/ OnUpdateReturn(t)
    \/ onInputModified(t)
    \/ onInputSet(t)
    \/ onMultiInputModified(t)
    \/ onOutputPointerSet(t)
    \/ onMultiOutputPointerSet(t)
    \/ ModifiedReturn(t)

\* the wiring calls the application can make next
Calls == cfg.menu \cup {script[k] : k \in DOMAIN script}

\* the wiring calls by name or number, and what they run
Wire(t) ==
    \/ \E c \in Calls : setInput(t, c)
    \/ \E c \in Calls : unsetInput(t, c)
    \/ \E c \in Calls : addInput(t, c)
    \/ \E c \in Calls : clearInputs(t, c)
    \/ acceptOutput(t)
    \/ acceptPointer(t)
    \/ onInputSetToSharedPointer(t)
    \/ __accept(t)
    \/ AcceptReturn(t)

InitWire == InitFor({Multi, Optional})

NextWire == Update(1) \/ Wire(1) \/ \E v \in Nodes : CallDeref(1, v)

\* one thread wires a pipeline through the look-up by name and number,
\* rewires it and uses it
SpecWire == InitWire /\ [][NextWire]_vars

InitErr == InitFor(Throwing)

NextErr == Pull(1) \/ Use(1) \/ ComputeRaise(1)

\* one thread wires and uses a pipeline in which updateOutputs can throw
SpecErr == InitErr /\ [][NextErr]_vars

\* the same, and the pipeline Chain with a filter T whose updateOutputs
\* can throw
InitFail ==
    InitFor(Throwing \cup {[Chain(<<FALSE, FALSE, FALSE, FALSE, FALSE>>) EXCEPT
                               !.throws = <<FALSE, TRUE, FALSE, FALSE, FALSE>>]})

\* one thread wires and uses a pipeline in which a node upstream of another
\* node can throw
SpecFail == InitFail /\ [][NextErr]_vars

InitLock == InitFor({Locked("Input"), Locked("Full")} \cup {LockedSet(s) : s \in Strategies})

\* the first thread uses the pipeline, the second reads the Values
NextLock == Pull(1) \/ Use(1) \/ Pull(2) \/ \E v \in Nodes : CallDeref(2, v)

\* two threads use pipelines whose node N has one of the four locking
\* strategies
SpecLock == InitLock /\ [][NextLock]_vars

\* the pipeline LockedSet with full locking in every node
AllFull == [LockedSet("Full") EXCEPT !.strategy = [n \in 1..5 |-> "Full"]]

InitFull == InitFor({AllFull})

NextFull == NextLock \/ \E y \in AllOutputs : CallSetDirty(2, y[1], y[2])

\* two threads dereference Values and call setDirty on a pipeline whose
\* nodes all have the full locking strategy
SpecFull == InitFull /\ [][NextFull]_vars

InitFair == InitFor({Passing("Full"), Passing("Input"), LockedSet("Full")})

\* one thread uses the pipeline and is scheduled fairly: a call that can
\* take its next step takes it
NextFair == Pull(1) \/ Use(1)

SpecFair == InitFair /\ [][NextFair]_vars /\ WF_vars(Pull(1))

InitPool ==
    InitFor({Pooled("Output"), Pooled("Full"), [Pooled("Full") EXCEPT !.numThreads = 0]})

NextPool ==
    \/ \E t \in AllThreads : Pull(t) \/ launchWorker(t) \/ WorkerReturn(t)
    \/ Use(1)

\* one thread uses a pipeline whose nodes may launch a worker thread
SpecPool == InitPool /\ [][NextPool]_vars

\* the application destructs the last Process handle of node n, or the
\* Value whose hidden node n is: the nodes that neither a handle nor a slot
\* with shared tracking holds are destructed
dropProcess(t, n) ==
    /\ CanCall(t)
    /\ n \in cfg.drops \cap handles
    /\ handles' = handles \ {n}
    /\ alive' = alive \cap Kept(handles \ {n})
    /\ UNCHANGED <<cfg, multiVars, numThreads, dataLocks, pipeVars, updateMutex,
                   inputDirtyMutex, stack, script, ops, wirings, h>>

InitLife == InitFor({Life})

NextLife == Pull(1) \/ Use(1) \/ \E n \in Nodes : dropProcess(1, n)

\* one thread uses a pipeline and drops its handles
SpecLife == InitLife /\ [][NextLife]_vars

\* OutputImpl::reset(), called by the application between two calls:
\* _data.reset(), and no signal
reset(t, m, o) ==
    /\ CanCall(t)
    /\ <<m, o>> \in AllOutputs
    /\ outData[m][o] # Null
    /\ outData' = [outData EXCEPT ![m][o] = Null]
    /\ ops' = ops + 1
    /\ h' = [h EXCEPT !.done = FALSE,
                      !.last = [op |-> "reset", n |-> m, i |-> o, src |-> <<m, o>>,
                                raised |-> FALSE, pre |-> outData[m][o]]]
    /\ UNCHANGED <<cfg, ext, inputDirty, outputDirty, assignedOutput, inData, conn,
                   updateMutex, inputDirtyMutex, stack, script, wirings>>

InitReset == InitFor({Chain(<<TRUE, TRUE, FALSE, FALSE, FALSE>>), Joined})

NextReset == Pull(1) \/ Use(1) \/ \E y \in AllOutputs : reset(1, y[1], y[2])

\* one thread uses a pipeline and resets outputs
SpecReset == InitReset /\ [][NextReset]_vars

InitMod ==
    InitFor({Fanned, Optional, [Joined EXCEPT !.sets = <<TRUE, FALSE, FALSE, FALSE, FALSE>>]})

NextMod ==
    \/ NextWire
    \/ \E y \in AllOutputs : CallSetDirty(1, y[1], y[2])
    \/ \E x \in AllInputs, y \in AllOutputs : CallAcceptOutput(1, x[1], x[2], y[1], y[2])
    \/ setDirty(1)
    \/ SetDirtyReturn(1)

\* one thread wires and uses pipelines with dependency hints, and sets
\* outputs dirty
SpecMod == InitMod /\ [][NextMod]_vars

\* one thread wires, rewires and uses the pipeline
Next == Pull(1) \/ Use(1) \/ Rewire(1)

Spec == Init /\ [][Next]_vars

InitBind == InitFor({Loose, Rebound})

\* one thread binds the inputs of a node to outputs and to pointers, unsets
\* them and uses the pipeline
SpecBind == InitBind /\ [][Next]_vars

\* two threads use a pipeline that was wired at start-up
NextConc == \E t \in AllThreads : Pull(t) \/ Use(t)

SpecConc == InitConc /\ [][NextConc]_vars

InitRace == InitFor({Shared, [Hinted EXCEPT !.threads = {1, 2}]})

\* two threads use a pipeline whose Values are on the same output
SpecRace == InitRace /\ [][NextConc]_vars

(***************************************************************************)
(* Properties.                                                             *)
(***************************************************************************)
Frames == UNION {{stack[t][k] : k \in DOMAIN stack[t]} : t \in AllThreads}

OnUpdateFrames == {f \in Frames : f.k = "onUpdate" /\ f.pc # "lock"}

\* C1: when a dereference of a Value on a fully wired pipeline has returned,
\* every upstream node that had a dirty input or output has computed exactly
\* once during it, no producer after a consumer, and no other upstream node
\* has computed
C1_ComputeOncePerDeref ==
    (h.done /\ h.wired) =>
        /\ ~h.late
        /\ \A n \in h.up : h.cnt[n] = (IF n \in h.startDirty THEN 1 ELSE 0)

\* C2: a pull of a node that nothing has reached since its previous pull
\* returned runs no compute
C2_NoRecomputeWhenQuiet ==
    \A f \in OnUpdateFrames : f.g.quiet => ~f.g.computed

\* C3 as stated: when a dereference has returned, no output of any upstream
\* node is dirty
C3_UpstreamClean ==
    h.done => \A n \in h.up : ~haveDirtyOutput(n)

\* C3: when a dereference has returned, no output is dirty of any node that
\* it asked for an update and whose required inputs are all present
C3_UpdatedClean ==
    h.done => \A n \in h.updated :
                 (\A i \in InputsOf(n) : cfg.inputRequired[n][i] =>
                      inData[n][i] # Null \/ assignedOutput[n][i] # NoOutput)
                 => \A o \in OutputsOf(n) : ~outputDirty[n][o]

C3_Witness ==
    /\ h.done
    /\ \E n \in h.updated : h.cnt[n] = 1 /\ cfg.numOutputs[n] = 2 /\ ~haveDirtyOutput(n)
    /\ \E m \in h.up \ h.updated : haveDirtyOutput(m)

\* setDirty is about to return: the output's flag is set and so is the flag
\* of every input downstream of it
SetDirtyReached ==
    \A t \in AllThreads :
        (Busy(t) /\ Top(t).k = "setDirty" /\ Top(t).pc = "emit" /\ Top(t).todo = <<>>) =>
            /\ outputDirty[Top(t).n][Top(t).a]
            /\ \A x \in DownstreamInputs(Top(t).n, Top(t).a) : inputDirty[x[1]][x[2]]

\* C4 as stated: setDirty(o) sets o's flag and dirties every input downstream,
\* and the next dereference of a Value downstream of o computes o's node
C4_SetDirtyRecomputes ==
    /\ SetDirtyReached
    /\ h.done => \A n \in h.dueAny : h.cnt[n] >= 1

\* C4: setDirty(o) sets o's flag and dirties every input downstream, and the
\* next dereference of a Value downstream of o, with no wiring call between,
\* computes o's node if all its required inputs are present
C4_SetDirtyRecomputesIfPresent ==
    /\ SetDirtyReached
    /\ h.done => \A n \in h.due : h.cnt[n] >= 1

C4_Witness ==
    /\ h.done
    /\ \E n \in h.due : h.cnt[n] = 1 /\ ~haveDirtyInput(n)

\* C5: a pull of a node that was set dirty, or whose input was modified,
\* while its updateOutputs was running does not return without computing
C5_InvalidationNotLost ==
    \A f \in OnUpdateFrames : (f.pc = "unlock" /\ f.g.owed) => f.g.computed

C5_Witness ==
    \E f \in OnUpdateFrames : f.pc = "unlock" /\ f.g.owed /\ f.g.computed

\* thread t is inside the pull procedure of node n
InPull(t, n) ==
    \E k \in DOMAIN stack[t] :
        /\ stack[t][k].n = n
        /\ stack[t][k].k \in {"onUpdate", "updateInputs"}
        /\ stack[t][k].pc # "lock"

\* C6: at most one thread is inside a node's pull procedure, and so inside
\* its updateOutputs
C6_OneThreadPerNode ==
    \A n \in Nodes : Cardinality({t \in AllThreads : InPull(t, n)}) <= 1

C6_Witness ==
    \E n \in Computing : \E t \in AllThreads :
        /\ Busy(t)
        /\ Top(t).n = n
        /\ Top(t).k = "onUpdate"
        /\ Top(t).pc = "lock"

\* C7: while updateOutputs runs, no input of the node is dirty
C7_InputsCleanInCompute ==
    \A n \in Computing : ~haveDirtyInput(n)

\* C8 as stated: updateOutputs never runs while a required input holds no
\* carrier
C8_RequiredHaveCarrier ==
    \A n \in Computing : \A i \in InputsOf(n) :
        cfg.inputRequired[n][i] => inData[n][i] # Null

\* C8: updateOutputs never runs while a required input holds no carrier and
\* has no assigned output, and a pull that finds dirty outputs and does not
\* compute leaves them dirty
C8_RequiredBound ==
    /\ \A n \in Computing : \A i \in InputsOf(n) :
          cfg.inputRequired[n][i] =>
              inData[n][i] # Null \/ assignedOutput[n][i] # NoOutput
    /\ \A f \in OnUpdateFrames :
          (f.pc = "unlock" /\ f.g.dirty /\ ~f.g.computed) =>
              /\ \E o \in OutputsOf(f.n) : outputDirty[f.n][o]
              /\ \E i \in InputsOf(f.n) :
                    /\ cfg.inputRequired[f.n][i]
                    /\ inData[f.n][i] = Null
                    /\ assignedOutput[f.n][i] = NoOutput

C8_Witness ==
    \E n \in Computing : \E i \in InputsOf(n) :
        /\ cfg.inputRequired[n][i]
        /\ inData[n][i] = Null
        /\ assignedOutput[n][i] # NoOutput

\* C9: an accept(output) that raised AssignmentError has left the input and
\* the dirty flags as they were
C9_FailedAcceptChangesNothing ==
    (h.last.op = "acceptOutput" /\ h.last.raised) =>
        Snapshot(h.last.n, h.last.i) = h.last.pre

\* C10: when accept(output) has returned, the output is the input's assigned
\* output and the input holds the carrier the output holds, or none if the
\* output holds none
C10_AcceptMirrorsOutput ==
    (h.last.op = "acceptOutput" /\ ~h.last.raised) =>
        /\ assignedOutput[h.last.n][h.last.i] = h.last.src
        /\ inData[h.last.n][h.last.i] = outData[h.last.src[1]][h.last.src[2]]

(***************************************************************************)
(* Properties of the wiring calls and of multi-inputs.                     *)
(***************************************************************************)
\* the frames of updateOutputs() that have just given output f.i - 1 a new
\* carrier with operator= and are back from notifyPointerSet()
JustSet ==
    {f \in {Top(t) : t \in {u \in AllThreads : Ready(u)}} :
        f.k = "onUpdate" /\ f.pc = "compute" /\ f.i > 1}

\* the inputs and the entries of multi-inputs that are assigned to <<m, o>>
\* hold the carrier of <<m, o>>
Mirrored(m, o) ==
    /\ \A x \in AllInputs : assignedOutput[x[1]][x[2]] = <<m, o>>
                              => inData[x[1]][x[2]] = outData[m][o]
    /\ \A x \in EntriesOn(m, o) : multiInputs[x[1]][x[2]].data = outData[m][o]

\* C11: when operator= has given an output a new carrier and the
\* notification has returned, every input assigned to the output and every
\* entry of a multi-input assigned to it holds that carrier
C11_SetReachesAssigned == \A f \in JustSet : Mirrored(f.n, f.i - 1)

\* the part of it that is about the inputs that are no entries of a
\* multi-input
C11_SetReachesInputs ==
    \A f \in JustSet : \A x \in AllInputs :
        assignedOutput[x[1]][x[2]] = <<f.n, f.i - 1>>
            => inData[x[1]][x[2]] = outData[f.n][f.i - 1]

\* an output was set while an input and an entry were assigned to it
C11_Reached ==
    \E f \in JustSet :
        /\ EntriesOn(f.n, f.i - 1) # {}
        /\ \E x \in AllInputs : assignedOutput[x[1]][x[2]] = <<f.n, f.i - 1>>

\* C12: when a dereference has returned, a node an optional input of which
\* was unset after the node had computed with it, and which the dereference
\* pulls through, has computed again
C12_UnsetRecomputes == h.done => \A n \in h.unsetDue : h.cnt[n] >= 1

\* C13: when a dereference has returned, a node whose multi-input was
\* cleared after the node had computed, and which the dereference pulls
\* through, has computed again
C13_ClearRecomputes == h.done => \A n \in h.clearDue : h.cnt[n] >= 1

\* C14: the dirty flags, the entries and the Update slots of a multi-input
\* are as many, and slot j is the one of entry j
C14_MultiInputAligned ==
    \A n \in Nodes :
        /\ Len(multiInputDirty[n]) = Len(multiInputs[n])
        /\ Len(multiInputUpdates[n]) = Len(multiInputs[n])
        /\ \A j \in DOMAIN multiInputs[n] : multiInputUpdates[n][j] = multiInputs[n][j].out

\* the part of it that clear() keeps: the entries and the slots
C14_SlotsAligned ==
    \A n \in Nodes :
        /\ Len(multiInputUpdates[n]) = Len(multiInputs[n])
        /\ \A j \in DOMAIN multiInputs[n] : multiInputUpdates[n][j] = multiInputs[n][j].out

(***************************************************************************)
(* Properties of a compute that throws.                                    *)
(***************************************************************************)
\* when updateOutputs has thrown, the stack of the dereference is unwound
\* and the output flags of the node are false until something reaches it
C15_ErrorLeavesClean ==
    /\ h.thrown = ops => ~Busy(1) /\ ~h.done
    /\ \A n \in Nodes : h.failed[n] /\ ~Busy(1) => ~haveDirtyOutput(n)

\* C15: after updateOutputs of a node has thrown, the error has left the
\* dereference, the output flags of the node stay false, and the node does
\* not compute again before setDirty or a Modified signal has reached it
C15_NoRetryAfterError ==
    /\ C15_ErrorLeavesClean
    /\ \A n \in Nodes : h.failed[n] => ~haveDirtyOutput(n)
    /\ \A f \in OnUpdateFrames : f.g.computed => ~f.g.failed

(***************************************************************************)
(* Properties of the look-up by name and number.                           *)
(***************************************************************************)
\* the key names a slot: a number below the number of slots, or a name that
\* a slot was registered under
Registered(names, count, key) ==
    IF key.by = "index" THEN key.index < count
    ELSE \E i \in DOMAIN names : names[i] = key.name

\* the error for a key that names no slot
Unregistered(key, what) ==
    IF key.by = "index" THEN "NotEnough" \o what ELSE "NoSuch" \o SubSeq(what, 1, Len(what) - 1)

\* the error that call c is to raise: "none" if all its keys name slots
ExpectedError(c) ==
    IF c.src.kind = "output" /\
       ~Registered(cfg.outputNames[c.src.n], cfg.numOutputs[c.src.n], c.src.key)
    THEN Unregistered(c.src.key, "Outputs")
    ELSE IF c.src.kind = "input" /\
            ~Registered(cfg.inputNames[c.src.n], cfg.numInputs[c.src.n], c.src.key)
    THEN Unregistered(c.src.key, "Inputs")
    ELSE IF c.op \in {"setInput", "unsetInput"} /\
            ~Registered(cfg.inputNames[c.n], cfg.numInputs[c.n], c.key)
    THEN Unregistered(c.key, "Inputs")
    ELSE IF c.op \in {"addInput", "clearInputs"} /\
            ~Registered(cfg.multiInputNames[c.n], cfg.numMultiInputs[c.n], c.key)
    THEN Unregistered(c.key, "Inputs")
    ELSE "none"

\* the wiring calls by name or number that have ended
KeyedEnded == h.last.op # "none" /\ h.last.call.op # "none"

\* C16: a wiring call with a name that no slot was registered under has
\* raised NoSuchInput or NoSuchOutput, one with a number that is not below
\* the number of slots NotEnoughInputs or NotEnoughOutputs, and the call has
\* changed nothing of the wiring
C16_UnknownSlotRaises ==
    KeyedEnded /\ ExpectedError(h.last.call) # "none" =>
        /\ h.last.raised
        /\ h.last.error = ExpectedError(h.last.call)
        /\ h.last.pre = Wiring

\* wiring calls with an unknown name and with a number out of range have
\* raised their errors, after the pipeline was used
C16_Witness ==
    /\ KeyedEnded
    /\ h.last.raised
    /\ h.last.error \in {"NoSuchInput", "NoSuchOutput", "NotEnoughInputs", "NotEnoughOutputs"}
    /\ h.last.error = ExpectedError(h.last.call)
    /\ h.last.call.op = "setInput"
    /\ ops >= 2

(***************************************************************************)
(* Properties of setInput(i, input) and addInput(i, input).                *)
(***************************************************************************)
\* the input that call c names as its source
OtherInput(c) == <<c.src.n, getInput(c.src.n, c.src.key).slot>>

\* what call c has wired: the input, or the last entry of the multi-input
Target(c) ==
    IF c.op = "setInput"
    THEN [out |-> assignedOutput[c.n][getInput(c.n, c.key).slot],
          data |-> inData[c.n][getInput(c.n, c.key).slot],
          heard |-> <<assignedOutput[c.n][getInput(c.n, c.key).slot],
                      <<c.n, getInput(c.n, c.key).slot>>>> \in conn]
    ELSE IF multiInputs[c.n] = <<>>
    THEN [out |-> NoOutput, data |-> Null, heard |-> FALSE]
    ELSE [out |-> multiInputs[c.n][Len(multiInputs[c.n])].out,
          data |-> multiInputs[c.n][Len(multiInputs[c.n])].data,
          heard |-> <<multiInputs[c.n][Len(multiInputs[c.n])].out,
                      <<c.n, Len(multiInputs[c.n])>>>> \in multiCallbacks]

\* the target of call c has the source of the other input: its assigned
\* output, connected to it, or else its carrier and no assigned output
SameSource(c) ==
    LET x == OtherInput(c)
    IN IF hasAssignedOutput(x[1], x[2])
       THEN Target(c).out = assignedOutput[x[1]][x[2]] /\ Target(c).heard
       ELSE Target(c).out = NoOutput /\ Target(c).data = inData[x[1]][x[2]]

\* the calls setInput(i, input) and addInput(i, input) whose keys name slots
FromInputCall(c) ==
    /\ c.op \in {"setInput", "addInput"}
    /\ c.src.kind = "input"
    /\ ExpectedError(c) = "none"

\* C20: when setInput(i, input) or addInput(i, input) has ended, the target
\* is assigned to the output the other input is assigned to, or else holds
\* the carrier of the other input and has no assigned output; the call does
\* not end the program
C20_SameSource ==
    /\ KeyedEnded /\ FromInputCall(h.last.call) => ~h.last.raised /\ SameSource(h.last.call)
    /\ h.crashed /\ Busy(1) => ~FromInputCall(stack[1][1].call)

\* the same for calls whose other input has an assigned output or holds a
\* carrier
C20_SameSourceIfSet ==
    KeyedEnded /\ FromInputCall(h.last.call) /\ ~h.last.raised => SameSource(h.last.call)

(***************************************************************************)
(* Properties of the locking strategies.                                   *)
(***************************************************************************)
\* the locks thread t holds for node n: slot, index and mode
Held(t, n) == {<<l.kind, l.i, l.mode>> : l \in {m \in dataLocks : m.t = t /\ m.n = n}}

\* the locks the strategy of n is to hold once lockInputs is through with
\* the inputs up to ins and lockOutputs with the outputs up to outs
ToHold(n, ins, outs) ==
    {<<"in", i, "r">> : i \in {j \in 1..ins : cfg.strategy[n] \in {"Input", "Full"} /\
                                              assignedOutput[n][j] # NoOutput}} \cup
    {<<"out", o, "w">> : o \in {j \in 1..outs : cfg.strategy[n] \in {"Output", "Full"}}}

\* the locks are on the carriers that the inputs hold and that the outputs
\* held when they were locked
OnCarriers(t, n) ==
    \A l \in {m \in dataLocks : m.t = t /\ m.n = n} :
        /\ l.c # Null
        /\ l.kind = "in" => l.c = inData[n][l.i]
        /\ l.kind = "out" /\ ~cfg.sets[n] => l.c = outData[n][l.i]

\* during updateOutputs of a node, the thread holds the read locks of the
\* inputs with an assigned output and the write locks of the outputs that
\* the strategy of the node takes; they are taken inputs first, in the order
\* of the slots, and none is held before lockInputs(0) or after
\* updateOutputs has returned
C17_LocksHeld ==
    \A t \in AllThreads : \A k \in DOMAIN stack[t] :
        LET f == stack[t][k]
        IN f.k = "onUpdate" =>
              /\ OnCarriers(t, f.n)
              /\ Held(t, f.n) =
                    CASE f.pc = "lockInputs" -> ToHold(f.n, f.i - 1, 0)
                      [] f.pc = "lockOutputs" -> ToHold(f.n, cfg.numInputs[f.n], f.i - 1)
                      [] f.pc = "compute" ->
                            ToHold(f.n, cfg.numInputs[f.n], cfg.numOutputs[f.n])
                      [] OTHER -> {}

\* no thread ends the program while it takes the locks
C17_LockingCompletes ==
    \A t \in AllThreads :
        h.crashed /\ Busy(t) /\ Top(t).k = "onUpdate" => Top(t).pc # "lockInputs"

\* C17: the strategy of a node takes the read locks of all inputs with an
\* assigned output and the write locks of all outputs, in this order, and
\* holds them during updateOutputs
C17_StrategyLocks == C17_LocksHeld /\ C17_LockingCompletes

\* a node with full locking computes with a read and two write locks while
\* another thread waits for the carrier it reads
C17_Reached ==
    \E t \in AllThreads : \E k \in DOMAIN stack[t] :
        /\ stack[t][k].k = "onUpdate"
        /\ stack[t][k].pc = "compute"
        /\ cfg.strategy[stack[t][k].n] = "Full"
        /\ Cardinality(Held(t, stack[t][k].n)) = 4

(***************************************************************************)
(* Properties of the worker threads.                                       *)
(***************************************************************************)
\* the worker threads that are running
Running == {w \in Workers : Busy(w)}

\* the counters of the instantiations of SimpleProcessNode in use
Counters == {numThreads[s] : s \in {cfg.strategy[n] : n \in Nodes}}

\* every counter is between 0 and pipeline.numThreads, and is
\* pipeline.numThreads when no thread is in a pull
C18_CounterInRange ==
    /\ \A c \in Counters : 0 <= c /\ c <= cfg.numThreads
    /\ (\A t \in AllThreads : ~Busy(t)) => Counters = {cfg.numThreads}

\* C18: never more than pipeline.numThreads worker threads are running, the
\* counter stays between 0 and pipeline.numThreads and is back at
\* pipeline.numThreads when no pull is in progress
C18_WorkerBudget == Cardinality(Running) <= cfg.numThreads /\ C18_CounterInRange

\* a worker thread is running
C18_Reached == Running # {} /\ cfg.strategy[3] = "Full"

(***************************************************************************)
(* Properties of the lifetimes of nodes.                                   *)
(***************************************************************************)
\* the nodes of the outputs that the inputs of node n are assigned to
Producers(n) == {assignedOutput[n][i][1] : i \in {j \in InputsOf(n) : hasAssignedOutput(n, j)}}

\* C19: the nodes that the inputs of a living node are assigned to live,
\* with or without a Process handle, and so do all nodes upstream of them;
\* no handler of a destructed node is called
C19_UpstreamKeptAlive ==
    /\ \A n \in alive : Producers(n) \subseteq alive /\ UpstreamOf(n) \subseteq alive
    /\ \A t \in AllThreads : \A k \in DOMAIN stack[t] : stack[t][k].n \in alive

\* a node without a Process handle lives upstream of a Value, and the
\* handler of a living input runs for the Modified of an output that a
\* destructed node was connected to as well
C19_Reached ==
    /\ \E n \in alive \ handles : \E v \in handles : n \in UpstreamOf(v)
    /\ \E t \in AllThreads : \E c \in conn :
          /\ Busy(t)
          /\ Top(t).k = "mod"
          /\ Top(t).sig = "Modified"
          /\ c[2][1] \notin alive
          /\ <<c[1], <<Top(t).n, Top(t).a>>>> \in conn

(***************************************************************************)
(* Properties of the flags after registration.                             *)
(***************************************************************************)
\* nothing has been called since the nodes registered their slots
JustRegistered == ops = 0 /\ wirings = 0 /\ script = cfg.script /\ \A t \in AllThreads : ~Busy(t)

\* no call has bound input i of node n since it was registered
Unconnected(n, i) ==
    /\ wirings = 0 \/ <<n, i>> \notin cfg.rewire
    /\ \A k \in DOMAIN cfg.script : <<cfg.script[k].n, cfg.script[k].i>> # <<n, i>>

\* the required inputs of n are bound, its optional inputs never were
FirstPullReady(n) ==
    \A i \in InputsOf(n) :
        IF cfg.inputRequired[n][i] THEN hasAssignedOutput(n, i) \/ isSet(n, i)
        ELSE Unconnected(n, i)

\* C21: after registration the flags of all outputs and required inputs are
\* true and those of the optional inputs false; an optional input that was
\* never connected is never dirty, so that no Update is sent through it,
\* and a node with bound required and unconnected optional inputs has
\* computed when the first pull of one of its outputs returns
C21_FlagsAfterRegistration ==
    /\ JustRegistered =>
          /\ \A y \in AllOutputs : outputDirty[y[1]][y[2]]
          /\ \A x \in AllInputs : inputDirty[x[1]][x[2]] = cfg.inputRequired[x[1]][x[2]]
    /\ \A x \in AllInputs :
          ~cfg.inputRequired[x[1]][x[2]] /\ Unconnected(x[1], x[2]) => ~inputDirty[x[1]][x[2]]
    /\ \A t \in AllThreads : \A k \in DOMAIN stack[t] :
          LET f == stack[t][k]
          IN f.k = "onUpdate" /\ f.pc = "unlock" /\ FirstPullReady(f.n) => f.n \in h.ran

\* the first pull of a node with a required and an unconnected optional
\* input returns
C21_Reached ==
    \E t \in AllThreads : \E k \in DOMAIN stack[t] :
        LET f == stack[t][k]
        IN /\ f.k = "onUpdate"
           /\ f.pc = "unlock"
           /\ ops = 1
           /\ FirstPullReady(f.n)
           /\ \E i \in InputsOf(f.n) : ~cfg.inputRequired[f.n][i]
           /\ h.cnt[f.n] = 1

(***************************************************************************)
(* Properties of concurrent requests.                                      *)
(***************************************************************************)
\* C22: an onUpdate that had to wait at the update mutex for the onUpdate
\* of another thread, with nothing reaching the node since that one took
\* the mutex, runs no updateOutputs; and while a thread waits the mutex is
\* held by a thread that is inside the node
C22_SecondRequestIdle ==
    /\ \A t \in AllThreads : \A k \in DOMAIN stack[t] :
          stack[t][k].k = "onUpdate" /\ stack[t][k].pc # "lock" /\ stack[t][k].g.quiet
             => ~stack[t][k].g.computed
    /\ \A t \in AllThreads : \A n \in Nodes :
          updateMutex[n] = t => \E k \in DOMAIN stack[t] : stack[t][k].n = n

\* the request that waited has gone through the node without updateOutputs
C22_Reached ==
    \E t \in AllThreads : \E k \in DOMAIN stack[t] :
        /\ stack[t][k].k = "onUpdate"
        /\ stack[t][k].pc = "unlock"
        /\ stack[t][k].g.quiet
        /\ ~stack[t][k].g.computed

(***************************************************************************)
(* Properties of the Update signal.                                        *)
(***************************************************************************)
\* updateOutputs of node n has been entered by the onUpdate in progress
Started(n) ==
    \E t \in AllThreads : \E k \in DOMAIN stack[t] :
        /\ stack[t][k].k = "onUpdate" /\ stack[t][k].n = n
        /\ stack[t][k].pc # "lock" /\ stack[t][k].g.computed

\* C23: the Update a node sends through an input is back before the node
\* goes on to its own updateOutputs: no worker thread that a node's pull
\* started is still running, and no onUpdate is in progress above the
\* node's frame, once the node has decided to compute
C23_UpdateReturnsAfterPull ==
    /\ \A w \in Workers : Busy(w) => ~Started(stack[w][1].n)
    /\ \A t \in AllThreads : \A k \in DOMAIN stack[t] :
          (/\ stack[t][k].k = "onUpdate"
           /\ \E j \in DOMAIN stack[t] : j > k /\ stack[t][j].k = "onUpdate")
          => stack[t][k].pc # "lock" /\ ~stack[t][k].g.computed

\* a worker thread is in the updateOutputs of a producer while the thread
\* that started it waits in join_all
C23_Reached ==
    \E t \in AllThreads : \E w \in Workers :
        /\ Busy(t) /\ Top(t).k = "send" /\ w \in Top(t).workers
        /\ Top(t).i > SendSteps(Top(t).n)
        /\ Busy(w) /\ Top(w).k = "onUpdate" /\ Top(w).pc = "compute"
        /\ Top(w).n \in UpstreamOf(Top(t).n)

(***************************************************************************)
(* Properties of the dependency hints.                                     *)
(***************************************************************************)
\* no output of n is dirty and no input that output o depends on is dirty
CleanFor(n, o) ==
    /\ ~haveDirtyOutput(n)
    /\ \A i \in InputsOf(n) : inputDirty[n][i] => ~inputOutputDepends(n, i, o)
    /\ \A j \in DOMAIN multiInputDirty[n] :
          multiInputDirty[n][j] => ~multiInputOutputDepends(n, o)

\* C24: an onUpdate for output o that finds all outputs clean and dirty
\* flags only on inputs that o does not depend on marks no output dirty and
\* goes on without updateOutputs
C24_OnlyFeedingInputsCount ==
    [][\A t \in AllThreads :
          (/\ Busy(t) /\ Top(t).k = "onUpdate" /\ Top(t).pc = "check"
           /\ CleanFor(Top(t).n, Top(t).a)
           /\ stack'[t] # stack[t])
          => outputDirty'[Top(t).n] = outputDirty[Top(t).n]]_vars

(***************************************************************************)
(* Properties of the Modified signal.                                      *)
(***************************************************************************)
\* the outputs that depend on a slot with the declared dependencies deps
DependentOutputs(n, deps) == IF deps # {} THEN deps ELSE 1..cfg.numOutputs[n]

\* the callbacks that the Modified slots of the outputs outs of n reach
ReachedFrom(n, outs) ==
    {<<"mod", x[1], x[2]>> : x \in {y \in AllInputs : \E o \in outs : <<<<n, o>>, y>> \in conn}}
    \cup {<<"multimod", z[2][1], z[2][2]>> :
             z \in {y \in multiCallbacks : \E o \in outs : y[1] = <<n, o>>}}

\* the callbacks that frame f is about to invoke
ToInvoke(f) == {<<f.todo[k].k, f.todo[k].n, f.todo[k].a>> : k \in DOMAIN f.todo}

\* frame f is a Modified that a callback of the node has just handled
Handled(f) == f.k \in {"mod", "multimod"} /\ f.sig = "Modified" /\ f.pc = "fwd"

\* C25: the callback for a Modified on an input or on an entry of the
\* multi-input sets the dirty flag of that slot, sends Modified signals on
\* the outputs declared to depend on the slot, or on all outputs if none
\* was declared, and on no other output, and writes no output flag
C25_ModifiedForwarding ==
    [][\A t \in AllThreads :
          (/\ Busy(t) /\ Top(t).sig = "Modified" /\ Top(t).pc = "enter"
           /\ Len(stack'[t]) = Len(stack[t]) /\ Handled(stack'[t][Len(stack[t])]))
          => LET n == Top(t).n
                 a == Top(t).a
                 f == stack'[t][Len(stack[t])]
             IN /\ outputDirty' = outputDirty
                /\ f.todo # <<>> => \A k \in DOMAIN f.todo : f.todo[k].sig = "Modified"
                /\ IF Top(t).k = "mod"
                   THEN /\ inputDirty'[n][a]
                        /\ ToInvoke(f) = ReachedFrom(n, DependentOutputs(n, cfg.inputDirtys[n][a]))
                   ELSE /\ a \in DOMAIN multiInputDirty'[n] /\ multiInputDirty'[n][a]
                        /\ ToInvoke(f) = ReachedFrom(n, DependentOutputs(n, cfg.multiInputDirtys[n]))]_vars

\* a Modified on a slot with declared dependencies was handled, while an
\* output that does not depend on the slot has a connected input
C25_Reached ==
    \E t \in AllThreads :
        /\ Busy(t) /\ Handled(Top(t)) /\ Top(t).todo # <<>>
        /\ LET deps == IF Top(t).k = "mod" THEN cfg.inputDirtys[Top(t).n][Top(t).a]
                       ELSE cfg.multiInputDirtys[Top(t).n]
           IN /\ deps # {}
              /\ ReachedFrom(Top(t).n, OutputsOf(Top(t).n) \ deps) # {}

\* the same for an entry of the multi-input
C25_ReachedMulti == C25_Reached /\ \E t \in AllThreads : Busy(t) /\ Top(t).k = "multimod"

(***************************************************************************)
(* Properties of accept(pointer) and accept(output).                       *)
(***************************************************************************)
\* accept(pointer) on an input has returned true and no call was made since
PointerBound == h.last.op = "acceptPointer" /\ ~h.last.raised

\* the outputs that depend on the input of the last call are dirty
C26_OutputsDirtyAfterBinding ==
    PointerBound =>
        \A o \in DependentOutputs(h.last.n, cfg.inputDirtys[h.last.n][h.last.i]) :
            outputDirty[h.last.n][o]

\* C26: when accept(pointer) on input i has returned, the dirty flag of i is
\* false and the outputs that depend on i are dirty
C26_PointerBinding ==
    (PointerBound => ~inputDirty[h.last.n][h.last.i]) /\ C26_OutputsDirtyAfterBinding

\* accept(output) on an input has returned true and no call was made since
OutputAssigned == h.last.op = "acceptOutput" /\ ~h.last.raised

\* when accept(output) has returned for an output that holds a carrier, the
\* input is dirty
C27_DirtyIfCarrier ==
    (OutputAssigned /\ outData[h.last.src[1]][h.last.src[2]] # Null) =>
        inputDirty[h.last.n][h.last.i]

\* C27: when accept(output) on input i has returned, the dirty flag of i is
\* true, whether i is required or optional and whether the output holds a
\* carrier or not
C27_AcceptOutputIsModified == OutputAssigned => inputDirty[h.last.n][h.last.i]

(***************************************************************************)
(* Properties of reset().                                                  *)
(***************************************************************************)
\* C28: when reset() of an output has returned, the output holds no carrier
\* and neither does any input that is assigned to it
C28_ResetReachesInputs ==
    h.last.op = "reset" =>
        /\ outData[h.last.n][h.last.i] = Null
        /\ \A x \in AllInputs :
              assignedOutput[x[1]][x[2]] = h.last.src => inData[x[1]][x[2]] = Null

(***************************************************************************)
(* Properties of the three modes of an input.                              *)
(***************************************************************************)
\* the mode of input <<n, i>>
Mode(n, i) ==
    IF assignedOutput[n][i] # NoOutput THEN "assigned"
    ELSE IF inData[n][i] # Null THEN "pointer" ELSE "unset"

C29_ReachedUnset == h.last.op = "unset" /\ h.last.pre.assignedOutput # NoOutput

(***************************************************************************)
(* Properties of a failed accept on a multi-input.                         *)
(***************************************************************************)
\* accept on a multi-input has ended with AssignmentError and no call was
\* made since
MultiAcceptFailed ==
    h.last.op = "addInput" /\ h.last.raised /\ h.last.error = "AssignmentError"

\* C30: when accept on a multi-input has ended with AssignmentError, the
\* entries, the slots, the callbacks and the dirty flags of the multi-input
\* are what they were before the call
C30_FailedMultiAcceptChangesNothing ==
    MultiAcceptFailed =>
        /\ multiInputs[h.last.n] = h.last.pre[7][1][h.last.n]
        /\ multiInputUpdates[h.last.n] = h.last.pre[7][3][h.last.n]
        /\ Len(multiInputDirty[h.last.n]) = Len(h.last.pre[7][2][h.last.n])
        /\ multiVars = h.last.pre[7]

\* accept of a String carrier on a multi-input of Int that has an entry has
\* ended with AssignmentError
C30_Reached == MultiAcceptFailed /\ multiInputs[h.last.n] # <<>>

(***************************************************************************)
(* Properties of sendUpdateSignals.                                        *)
(***************************************************************************)
\* the Update signals that frame f of sendUpdateSignals is about to send
\* all go through slot k of node n: input k, or entry k - numInputs of the
\* multi-input
ThroughSlot(f, n, k) ==
    \A j \in DOMAIN f.todo :
        /\ f.todo[j].k = "onUpdate"
        /\ IF k <= cfg.numInputs[n]
           THEN <<<<f.todo[j].n, f.todo[j].a>>, <<n, k>>>> \in conn
           ELSE /\ k - cfg.numInputs[n] \in DOMAIN multiInputUpdates[n]
                /\ multiInputUpdates[n][k - cfg.numInputs[n]] = <<f.todo[j].n, f.todo[j].a>>

WritesFlag(n) ==
    \/ inputDirty'[n] # inputDirty[n]
    \/ outputDirty'[n] # outputDirty[n]
    \/ multiInputDirty'[n] # multiInputDirty[n]

\* C32: a dirty flag of a node is written by a thread that holds the dirty
\* mutex of the node, so never while another thread holds that mutex
C32_FlagsWrittenUnderMutex ==
    [][\A n \in Nodes : \A u \in AllThreads :
          (WritesFlag(n) /\ inputDirtyMutex[n] = u) => stack'[u] # stack[u]]_vars

\* the same for the flags of the inputs and of the multi-input only
C32_InputFlagsWrittenUnderMutex ==
    [][\A n \in Nodes : \A u \in AllThreads :
          (/\ inputDirty'[n] # inputDirty[n] \/ multiInputDirty'[n] # multiInputDirty[n]
           /\ inputDirtyMutex[n] = u) => stack'[u] # stack[u]]_vars

\* C33: no thread holds a node's dirty mutex at the moment it emits Update
\* backward from that node (a send step with a signal to deliver, or the
\* launch of a worker) or while it locks carriers for and runs the node's
\* compute, and a Modified handler that a thread enters for a node never
\* finds the dirty mutex of that node held by the thread itself
C33_NoDirtyMutexWhileUpdating ==
    \A t \in AllThreads : \A k \in DOMAIN stack[t] :
        LET f == stack[t][k]
        IN /\ (f.k \in {"send", "worker"} /\ f.todo # <<>>) => inputDirtyMutex[f.n] # t
           /\ (f.k = "onUpdate" /\ f.pc \in {"lockInputs", "lockOutputs", "compute"})
                  => inputDirtyMutex[f.n] # t
           /\ (k = Len(stack[t]) /\ f.k \in {"mod", "multimod"} /\ f.pc = "enter")
                  => inputDirtyMutex[f.n] # t

\* a Modified sent back during the recursive pull has taken the dirty mutex
\* of the node whose sendUpdateSignals is still waiting below on the stack
C33_Reached ==
    \E t \in AllThreads : \E k, l \in DOMAIN stack[t] :
        /\ k < l
        /\ stack[t][k].k = "send"
        /\ stack[t][l].k \in {"mod", "multimod"}
        /\ stack[t][l].n = stack[t][k].n
        /\ stack[t][l].pc = "fwd"
        /\ inputDirtyMutex[stack[t][k].n] = t

\* C34: Modified is idempotent: when setDirty on an output has returned and
\* the same setDirty is called again with no call in between, and the
\* Modified of both calls has reached the handlers of every input and entry
\* downstream, the second delivery of Modified leaves every dirty flag, carrier and connection of
\* every node as the first has left it, so that the next pull computes what
\* it would have computed after the first
C34_ModifiedIdempotent ==
    (h.last.op = "setDirty" /\ h.last.pre # <<>>) => h.last.pre = <<pipeVars, multiVars>>

\* the second of two equal deliveries has returned after a pull had cleaned
\* an input downstream of the output, which is dirty now
C34_Reached ==
    /\ h.last.op = "setDirty"
    /\ h.last.pre # <<>>
    /\ h.ran # {}
    /\ \E x \in DownstreamInputs(h.last.n, h.last.i) : inputDirty[x[1]][x[2]]
    /\ \E x \in DownstreamInputs(h.last.n, h.last.i) :
          \E o \in OutputsOf(x[1]) : outputDirty[x[1]][o] = FALSE

\* C35: every call of a thread (a dereference of a Value, a pull, a
\* setDirty) eventually returns, unless the program has ended, for every
\* locking strategy, also for a node whose output carrier is the carrier of
\* one of its inputs
C35_PullsReturn == Busy(1) ~> (~Busy(1) \/ h.crashed)

\* no call and no signal is in progress
Quiescent == \A t \in AllThreads : ~Busy(t)

\* C36: in a quiescent state an input that is clean and assigned to an
\* output has a producer whose output is clean
C36_CleanInputCleanProducer ==
    Quiescent =>
        \A x \in AllInputs :
            (~inputDirty[x[1]][x[2]] /\ hasAssignedOutput(x[1], x[2]))
                => ~outputDirty[assignedOutput[x[1]][x[2]][1]][assignedOutput[x[1]][x[2]][2]]

\* C37: when a dereference has returned and nothing else is in progress,
\* every input and every entry of a multi-input through which it sent
\* Update is clean, also if a producer replaced its carrier during the pull
C37_PulledInputsClean ==
    (OneThread /\ h.done /\ Quiescent) =>
        /\ \A x \in h.sent : ~inputDirty[x[1]][x[2]]
        /\ \A x \in h.sentMulti :
              x[2] \in DOMAIN multiInputDirty[x[1]] => ~multiInputDirty[x[1]][x[2]]

\* C38: when accept(output) or accept(pointer) has returned for an input
\* that was assigned to another output before the call, the input is no
\* longer connected to that output: no Modified or PointerSet of the old
\* output reaches it and its Update does not reach the old producer
C38_ReassignDetaches ==
    (/\ Quiescent
     /\ h.last.op \in {"acceptOutput", "acceptPointer"}
     /\ ~h.last.raised
     /\ h.last.pre.assignedOutput # NoOutput
     /\ h.last.pre.assignedOutput # assignedOutput[h.last.n][h.last.i])
        => <<h.last.pre.assignedOutput, <<h.last.n, h.last.i>>>> \notin conn

\* the Update through input x went to the node whose updateOutputs threw
\* or to a node downstream of it
OnFailedPath(x) ==
    LET m == assignedOutput[x[1]][x[2]][1]
    IN /\ hasAssignedOutput(x[1], x[2])
       /\ \E f \in Nodes : h.failed[f] /\ (f = m \/ f \in UpstreamOf(m))

\* C39: when a dereference has ended with the error of an updateOutputs, no
\* update mutex, dirty mutex or carrier lock is held, the thread counters
\* have their configured value, and no input whose Update ended with the
\* error is clean while an output of its node is dirty
C39_ErrorLeavesConsistent ==
    (Quiescent /\ h.thrown = ops) =>
        /\ \A n \in Nodes : updateMutex[n] = Null /\ inputDirtyMutex[n] = Null
        /\ dataLocks = {}
        /\ \A s \in Strategies :
              numThreads[s] = IF \E n \in Nodes : cfg.strategy[n] = s
                              THEN cfg.numThreads ELSE 0
        /\ \A x \in h.sent :
              OnFailedPath(x) => ~(~inputDirty[x[1]][x[2]] /\ haveDirtyOutput(x[1]))

\* the carriers that updateOutputs of n reads through its assigned inputs,
\* and the carriers of its outputs, which it writes
Reads(n) ==
    {inData[n][i] : i \in {j \in InputsOf(n) : hasAssignedOutput(n, j)}} \ {Null}

Writes(n) == {outData[n][o] : o \in OutputsOf(n)} \ {Null}

\* C40: with full locking in every node, no updateOutputs is running that
\* writes a carrier which another running updateOutputs reads through an
\* assigned input or writes as well
C40_NoConcurrentAccess ==
    \A m, n \in Computing :
        m # n => /\ Writes(m) \cap Reads(n) = {}
                 /\ Writes(m) \cap Writes(n) = {}

====
